---- MODULE Spec2Model ----
(***************************************************************************)
(* Guardian: the scheduled-scan orchestrator (internal/scheduler) and the  *)
(* per-file risk scorer (internal/risk).                                   *)
(*                                                                         *)
(* Scheduler part: one Scheduler instance, its run-loop goroutine, the     *)
(* callers of its exported methods (Start, Stop, CancelScan, RunNow), the  *)
(* runtime ticker and the configuration store.  executeScan is split at    *)
(* the places where another goroutine can observably interleave: the       *)
(* installation of the cancellation handle and every poll of ctx.Done().   *)
(*                                                                         *)
(* Risk part: AnalyzeFileRisk as a line-by-line scan followed by the       *)
(* scoring stage.                                                          *)
(***************************************************************************)
EXTENDS Integers, Sequences, FiniteSets, TLC

\* ------------------------------------------------------------------ bounds
\* Number of calls made from outside the run loop (RunNow, CancelScan, Stop,
\* a ticker fire, a configuration save) in one behaviour.
MaxCalls == 3
\* Calls made from outside the run loops when the application replaces its
\* scheduler (ticker fires, TriggerScheduledScan, CancelScheduledScan), and
\* the number of UpdateScheduleConfig calls.
MaxAppCalls == 2
MaxUpdates == 1
\* Polls of the cancellation signal one scan makes at most.
MaxPolls == 2
\* Fragments a redacted text is made of.
MaxParts == 2
\* Occurrences of each kind of classifier feature in a text.
MaxHits == 1
\* Supported files directly under root "A".
MaxFiles == 1
\* Lines of text in an analysed file, and matches of one pattern on a line.
MaxLines == 3
MaxPerLine == 3
\* Entries under the root of a directory ScanDirectory walks, and the number
\* of ScanDirectory and App.CancelScan calls.
MaxEntries == 2
MaxScanCalls == 3
\* Calls on the store (UpdateStats, AddSchedulePath, ...) in one behaviour.
MaxStoreCalls == 2

\* ------------------------------------------------------- program constants
\* make(chan bool, 1)
TriggerCapTwo == 1 + 1
TriggerCap == 1

\* --------------------------------------------------------------- file tree
Roots == {"A", "B"}

\* The entries WalkDir visits under a root, in visitation order: the root
\* directory itself, then its files.  "file" has a supported extension,
\* "other" does not.
Entries(r) ==
    IF r = "A" THEN <<"dir">> \o [i \in 1..MaxFiles |-> "file"]
               ELSE <<"dir", "other">>

\* RiskScore values AnalyzeFileRisk may return for a file of the tree.
FileScores == {0, 60}

\* Values of ScheduleConfig.ScanPaths, and of the whole stored configuration.
PathLists == {<< >>, <<"A">>, <<"A", "B">>}
Configs == [Enabled : BOOLEAN, IntervalHours : {0, 1}, ScanPaths : PathLists]

VARIABLES
    \* --- Scheduler fields and run-loop position
    pc,                 \* position of the run goroutine
    started,            \* Start has been called
    tickerArmed,        \* s.ticker is running
    tickPending,        \* a tick is waiting in s.ticker.C
    tickDuringScan,     \* the latest tick fired during an executeScan call
    stopClosed,         \* s.stop is closed
    trigger,            \* number of values buffered in s.trigger
    cancelCurrentScan,  \* s.cancelCurrentScan # nil
    ctxCancelled,       \* the current scan's ctx is Done
    stopPc,             \* position of a caller inside Stop
    panicked,           \* the process died with a runtime panic
    \* --- executeScan locals
    scanPaths, rootIdx, entryIdx, totalToScan, scannedCount,
    totalFiles, totalRisk, report,
    certRequested,      \* GenerateComplianceCertificate was called by this scan
    certPath,           \* the certificate path of the scan-complete payload
    status,             \* the status of the audit entry and of scan-complete
    certError,          \* GenerateComplianceCertificate returned an error
    \* --- store and notification sink
    cfg,                \* the stored ScheduleConfig
    audit,              \* audit_history rows, oldest first
    scanLog,            \* notifications emitted by the latest executeScan call,
                        \* in order, with "audit" for its AddAuditEntry call
    scanData,           \* the current and total fields of those notifications
    \* --- history variables
    calls,              \* external calls made so far
    activeScans,        \* executeScan bodies entered and not yet returned
    lastLoop,           \* the latest decision of the run loop
    cancelAt,           \* where the current scan was when its ctx was cancelled
    firstCalls,         \* RunNow calls made while no trigger was pending
    rapidCalls,         \* RunNow calls made while a trigger was pending
    auditAtEntry,       \* Len(audit) when the latest executeScan was entered
    manualScans,        \* executeScan calls made for a manual trigger
    manualLoadFail,     \* manual triggers consumed with a failed Load
    idleCancels,        \* CancelScan was called while no scan was executing
    \* --- AnalyzeFileRisk
    fpc, lineNum, profile, score, category, confidence, publicName,
    \* --- Classifier.Classify
    cpc,                \* position inside Classify
    doc,                \* what the classified text contains
    medScore, finScore, \* the raw scores, in halves of a point
    classified,         \* the returned type and confidence
    \* --- the application and the schedulers it creates
    app,                \* a.scheduler, calls made, audit entries written
    appCfg,             \* the stored ScheduleConfig
    sch,                \* the Scheduler instances, by order of creation
    \* --- RedactContent
    pass,               \* 1: first call, 2: call on its result, 3: returned
    step,               \* index of the next ReplaceAllString call
    content,            \* the argument of the first call
    text,               \* the local variable text
    redacted,           \* the result of the first call
    \* --- App.ScanDirectory, AnalyzeDirectory, App.CancelScan
    dpc,                \* position of the ScanDirectory call, "idle" when none
    tree,               \* the entries WalkDir visits under the scanned path
    dirIdx,             \* index of the entry the walk is at
    dirReport,          \* the AuditReport AnalyzeDirectory builds
    cancelScan,         \* a.cancelScan # nil
    scanCtxDone,        \* the context of the latest ScanDirectory call is Done
    emitted,            \* events emitted by the latest ScanDirectory call
    returned,           \* what it returned: its report or an empty one
    dcalls,             \* ScanDirectory and CancelScan calls made so far
    cancelledAt,        \* where the walk stood when CancelScan cancelled it
    idleCancel,         \* CancelScan was called with no directory scan running
    \* --- Store and the calls that load and save
    db,                 \* the tables config, stats and audit_history
    storeCalls          \* the calls: position, arguments, loaded configuration

schedVars == <<pc, started, tickerArmed, tickPending, tickDuringScan,
               stopClosed, trigger,
               cancelCurrentScan, ctxCancelled, stopPc, panicked,
               scanPaths, rootIdx, entryIdx, totalToScan, scannedCount,
               totalFiles, totalRisk, report, certRequested, certPath, status, certError,
               cfg, audit, scanLog, scanData,
               calls, activeScans, lastLoop, cancelAt,
               firstCalls, rapidCalls, auditAtEntry, manualScans,
               manualLoadFail, idleCancels>>

riskVars == <<fpc, lineNum, profile, score, category, confidence, publicName>>

classVars == <<cpc, doc, medScore, finScore, classified>>

appVars == <<app, appCfg, sch>>

redactVars == <<pass, step, content, text, redacted>>

dirVars == <<dpc, tree, dirIdx, dirReport, cancelScan, scanCtxDone, emitted,
             returned, dcalls, cancelledAt, idleCancel>>

storeVars == <<db, storeCalls>>

vars == <<schedVars, riskVars, classVars, appVars, redactVars, dirVars,
          storeVars>>

\* What each specification leaves alone.
notSched == <<riskVars, classVars, appVars, redactVars, dirVars, storeVars>>
notRisk == <<schedVars, classVars, appVars, redactVars, dirVars, storeVars>>
notClass == <<schedVars, riskVars, appVars, redactVars, dirVars, storeVars>>
notApp == <<schedVars, riskVars, classVars, redactVars, dirVars, storeVars>>
notRedact == <<schedVars, riskVars, classVars, appVars, dirVars, storeVars>>
notDir == <<schedVars, riskVars, classVars, appVars, redactVars, storeVars>>
notStore == <<schedVars, riskVars, classVars, appVars, redactVars, dirVars>>

\* ------------------------------------------------------------ scheduler
scanLocals == <<scanPaths, rootIdx, entryIdx, totalToScan, scannedCount,
                totalFiles, totalRisk, report, certRequested, certPath, status, certError,
                auditAtEntry>>
tickerVars == <<tickerArmed, tickPending, tickDuringScan>>
c3Ghosts == <<firstCalls, rapidCalls, manualScans, manualLoadFail,
              idleCancels>>

EmptyReport == [TotalFiles |-> 0, TotalRiskScore |-> 0]

\* Value of the history variable cancelAt while the scan's ctx is live.
NoCancel == [at |-> "none", analysed |-> 0, pollsLeft |-> FALSE]

\* NewScheduler: stop open, trigger empty, no ticker, no handle.
SchedulerInit(c) ==
    /\ pc = "new" /\ started = FALSE
    /\ tickerArmed = FALSE /\ tickPending = FALSE /\ tickDuringScan = FALSE
    /\ stopClosed = FALSE /\ trigger = 0
    /\ cancelCurrentScan = FALSE /\ ctxCancelled = FALSE
    /\ stopPc = "idle" /\ panicked = FALSE
    /\ scanPaths = << >> /\ rootIdx = 0 /\ entryIdx = 0
    /\ totalToScan = 0 /\ scannedCount = 0
    /\ totalFiles = 0 /\ totalRisk = 0 /\ report = EmptyReport
    /\ certRequested = FALSE /\ certPath = "" /\ status = ""
    /\ certError = FALSE
    /\ cfg = c /\ audit = << >> /\ scanLog = << >> /\ scanData = << >>
    /\ calls = 0 /\ activeScans = 0 /\ lastLoop = "none" /\ cancelAt = NoCancel
    /\ firstCalls = 0 /\ rapidCalls = 0 /\ auditAtEntry = 0
    /\ manualScans = 0 /\ manualLoadFail = 0 /\ idleCancels = FALSE

\* The run loop is back at its select statement: the executeScan call of the
\* previous iteration has returned.
LoopAtSelectNoWait == pc \notin {"new", "norun", "done"}
LoopAtSelect == pc = "select"

\* run, ticker case: `if err != nil || !config.Enabled { continue }`.
TickRunsAlways(loadOk, enabled) == loadOk
TickRuns(loadOk, enabled) == loadOk /\ enabled

\* run, trigger case: `if err != nil { continue }`, Enabled is not consulted.
TriggerRunsIfEnabled(loadOk, enabled) == loadOk /\ enabled
TriggerRuns(loadOk, enabled) == loadOk

\* executeScan, analyze phase: `if err == context.Canceled`.
IsUserCancelNever(cancelled) == FALSE
IsUserCancel(cancelled) == cancelled

\* Start: `if !config.Enabled || config.IntervalHours == 0 { s.ticker.Stop() }
\* else { s.ticker.Reset(interval) }`.
TickerRunningAlways(c) == TRUE
TickerRunning(c) == c.Enabled /\ c.IntervalHours # 0

\* run: `if initialConfig.Enabled && initialConfig.IntervalHours > 0`.
InitialScan(c) == c.Enabled /\ c.IntervalHours > 0

\* executeScan: `ctx, cancel := context.WithCancel(parentCtx)` gives every
\* scan a context of its own, live while the application context is.
FreshCtxReused(previous) == previous
FreshCtx(previous) == FALSE

\* executeScan: `status := "PASSED"; if totalRisk > 0 { status = "FAILED" }`.
StatusOfCritical(risk) == IF risk > 100 THEN "FAILED" ELSE "PASSED"
StatusOf(risk) == IF risk > 0 THEN "FAILED" ELSE "PASSED"

\* executeScan: `if err == nil { certPath = path }`, otherwise the error is
\* printed and certPath keeps its initial "".
CertPathOfIgnoringError(certOk) == "certificate.pdf"
CertPathOf(certOk) == IF certOk THEN "certificate.pdf" ELSE ""

\* progressCallback: `scannedCount++` and then "current": scannedCount.
ProgressCurrentBeforeIncrement(count) == count
ProgressCurrent(count) == count + 1

\* time.NewTicker: the runtime puts a tick into the one-slot channel s.ticker.C
\* whether or not the run loop is receiving at that moment.
TickBufferedIfReceiving(receiving) == receiving
TickBuffered(receiving) == TRUE

\* RunNow: the select has a default branch, so one of its branches is
\* always ready, whatever the trigger buffer holds.
SendReadyIfRoom(buffered) == buffered < TriggerCap
SendReady(buffered) == TRUE

\* The call `s.executeScan(ctx, paths)`: the body is entered.
EnterScan(paths, why) ==
    /\ pc' = "enter"
    /\ scanPaths' = paths
    /\ activeScans' = activeScans + 1
    /\ lastLoop' = why
    /\ scanLog' = << >> /\ scanData' = << >>
    /\ cancelAt' = NoCancel
    /\ rootIdx' = 0 /\ entryIdx' = 0 /\ totalToScan' = 0 /\ scannedCount' = 0
    /\ totalFiles' = 0 /\ totalRisk' = 0 /\ report' = EmptyReport
    /\ certRequested' = FALSE /\ certPath' = "" /\ status' = ""
    /\ certError' = FALSE
    /\ auditAtEntry' = Len(audit)

\* executeScan returns: the deferred function clears the handle and the run
\* loop is back at its select.
ReturnFromScan ==
    /\ pc' = "select"
    /\ cancelCurrentScan' = FALSE
    /\ activeScans' = activeScans - 1

\* Start: Load; on failure return the error (no run loop).  Otherwise create
\* the ticker, stop it when disabled or interval zero, and spawn run, which
\* scans once immediately with the configuration Start loaded.
Start ==
    /\ ~started /\ ~panicked
    /\ started' = TRUE
    /\ \E loadOk \in BOOLEAN :
        IF ~loadOk
        THEN /\ pc' = "norun"
             /\ UNCHANGED <<tickerVars, scanLocals, scanLog, scanData, activeScans,
                            lastLoop, cancelAt>>
        ELSE /\ tickerArmed' = TickerRunning(cfg)
             /\ tickPending' = FALSE
             /\ UNCHANGED tickDuringScan
             /\ IF InitialScan(cfg)
                THEN EnterScan(cfg.ScanPaths, "initial")
                ELSE /\ pc' = "select"
                     /\ UNCHANGED <<scanLocals, scanLog, scanData, activeScans,
                                    lastLoop, cancelAt>>
    /\ UNCHANGED <<stopClosed, trigger, cancelCurrentScan, ctxCancelled,
                   stopPc, panicked, cfg, audit, calls, c3Ghosts>>

\* run, `case <-s.ticker.C`.
OnTick ==
    /\ LoopAtSelect /\ ~panicked
    /\ tickPending
    /\ tickPending' = FALSE
    /\ UNCHANGED tickDuringScan
    /\ \E loadOk \in BOOLEAN :
        IF TickRuns(loadOk, cfg.Enabled)
        THEN EnterScan(cfg.ScanPaths, "tickScan")
        ELSE /\ lastLoop' = IF loadOk THEN "tickSkip" ELSE "tickLoadFail"
             /\ UNCHANGED <<pc, scanLocals, scanLog, scanData, activeScans, cancelAt>>
    /\ UNCHANGED <<started, tickerArmed, stopClosed, trigger,
                   cancelCurrentScan, ctxCancelled, stopPc, panicked,
                   cfg, audit, calls, c3Ghosts>>

\* run, `case <-s.trigger`.
OnTrigger ==
    /\ LoopAtSelect /\ ~panicked
    /\ trigger > 0
    /\ trigger' = trigger - 1
    /\ \E loadOk \in BOOLEAN :
        IF TriggerRuns(loadOk, cfg.Enabled)
        THEN /\ EnterScan(cfg.ScanPaths, "trigScan")
             /\ manualScans' = manualScans + 1
             /\ UNCHANGED manualLoadFail
        ELSE /\ lastLoop' = IF loadOk THEN "trigSkip" ELSE "trigLoadFail"
             /\ manualLoadFail' = manualLoadFail + 1
             /\ UNCHANGED <<pc, scanLocals, scanLog, scanData, activeScans, cancelAt,
                            manualScans>>
    /\ UNCHANGED <<started, tickerVars, stopClosed, cancelCurrentScan,
                   ctxCancelled, stopPc, panicked, cfg, audit, calls,
                   firstCalls, rapidCalls, idleCancels>>

\* run, `case <-s.stop`: stop the ticker and return.  Ticker.Stop does not
\* close the channel; whether a tick already sent stays readable depends on
\* the Go release, so both outcomes are allowed.
OnStop ==
    /\ LoopAtSelect /\ ~panicked
    /\ stopClosed
    /\ pc' = "done"
    /\ lastLoop' = "stop"
    /\ tickerArmed' = FALSE
    /\ tickPending' \in {tickPending, FALSE}
    /\ UNCHANGED tickDuringScan
    /\ UNCHANGED <<started, stopClosed, trigger, cancelCurrentScan,
                   ctxCancelled, stopPc, panicked, scanLocals, cfg, audit,
                   scanLog, scanData, calls, activeScans, cancelAt, c3Ghosts>>

\* ---------------------------------------------------------- executeScan
\* s.notify(event, data): the event and the current and total fields of its
\* payload (0 where the payload has none).
EmitWith(ev, current, total) ==
    /\ scanLog' = Append(scanLog, ev)
    /\ scanData' = Append(scanData, [current |-> current, total |-> total])

Emit(ev) == EmitWith(ev, 0, 0)

CurrentEntries == Entries(scanPaths[rootIdx])

\* TRUE when the scan will poll ctx.Done() again before it completes.
PollsLeft ==
    \/ pc \in {"countRoot", "countWalk", "countCheck", "analyze"}
    \/ pc = "file" /\ (entryIdx < Len(CurrentEntries) \/ rootIdx < Len(scanPaths))

\* `s.notify("scan:scheduled:error", {"error": "Scan cancelled by user"}); return`
AbortEndsLoop ==
    /\ Emit("error:cancelled")
    /\ pc' = "done"
    /\ cancelCurrentScan' = FALSE
    /\ activeScans' = activeScans - 1
    /\ UNCHANGED <<ctxCancelled, audit, scanPaths, rootIdx, entryIdx,
                   totalToScan, scannedCount, totalFiles, totalRisk, report>>

Abort ==
    /\ Emit("error:cancelled")
    /\ ReturnFromScan
    /\ UNCHANGED <<ctxCancelled, audit, scanPaths, rootIdx, entryIdx,
                   totalToScan, scannedCount, totalFiles, totalRisk, report>>

\* Lines 145-174: the empty-paths guard, then the cancellable context, the
\* handle stored under the mutex, and the log:info notification.
ExecGuard ==
    /\ pc = "enter" /\ ~panicked
    /\ IF Len(scanPaths) = 0
       THEN /\ pc' = "select"
            /\ activeScans' = activeScans - 1
            /\ UNCHANGED <<cancelCurrentScan, ctxCancelled, scanLog, scanData, rootIdx>>
       ELSE /\ pc' = "countRoot"
            /\ cancelCurrentScan' = TRUE
            /\ ctxCancelled' = FreshCtx(ctxCancelled)
            /\ rootIdx' = 1
            /\ Emit("log:info")
            /\ UNCHANGED activeScans
    /\ UNCHANGED <<started, tickerVars, stopClosed, trigger, stopPc, panicked,
                   scanPaths, entryIdx, totalToScan, scannedCount, totalFiles,
                   totalRisk, report, certRequested, certPath, status, certError, auditAtEntry,
                   cfg, audit, calls, lastLoop, cancelAt, c3Ghosts>>

\* Count phase, top of the loop over paths: the select on ctx.Done().
CountRoot ==
    /\ pc = "countRoot" /\ ~panicked
    /\ IF ctxCancelled
       THEN Abort
       ELSE /\ pc' = "countWalk"
            /\ entryIdx' = 1
            /\ UNCHANGED <<cancelCurrentScan, ctxCancelled, activeScans,
                           scanLog, scanData, audit, scanPaths, rootIdx, totalToScan,
                           scannedCount, totalFiles, totalRisk, report>>
    /\ UNCHANGED <<started, tickerVars, stopClosed, trigger, stopPc, panicked,
                   certRequested, certPath, status, certError, auditAtEntry, cfg, calls, lastLoop,
                   cancelAt, c3Ghosts>>

\* Count phase, one WalkDir callback: poll, then count a scannable file.  A
\* cancelled callback returns ctx.Err(), which ends the walk.
CountWalk ==
    /\ pc = "countWalk" /\ ~panicked
    /\ IF ctxCancelled
       THEN /\ pc' = "countCheck"
            /\ UNCHANGED <<entryIdx, totalToScan>>
       ELSE /\ totalToScan' = IF CurrentEntries[entryIdx] = "file"
                              THEN totalToScan + 1 ELSE totalToScan
            /\ IF entryIdx < Len(CurrentEntries)
               THEN /\ entryIdx' = entryIdx + 1
                    /\ UNCHANGED pc
               ELSE /\ pc' = "countCheck"
                    /\ UNCHANGED entryIdx
    /\ UNCHANGED <<started, tickerVars, stopClosed, trigger, cancelCurrentScan,
                   ctxCancelled, stopPc, panicked, scanPaths, rootIdx,
                   scannedCount, totalFiles, totalRisk, report, certRequested,
                   certPath, status, certError, auditAtEntry, cfg, audit, scanLog, scanData, calls,
                   activeScans, lastLoop, cancelAt, c3Ghosts>>

\* Count phase, after WalkDir: `if ctx.Err() != nil`; after the last root the
\* scan:scheduled:start notification.
CountCheck ==
    /\ pc = "countCheck" /\ ~panicked
    /\ IF ctxCancelled
       THEN Abort
       ELSE /\ IF rootIdx < Len(scanPaths)
               THEN /\ pc' = "countRoot"
                    /\ rootIdx' = rootIdx + 1
                    /\ UNCHANGED <<entryIdx, scanLog, scanData>>
               ELSE /\ pc' = "analyze"
                    /\ rootIdx' = 1
                    /\ entryIdx' = 1
                    /\ EmitWith("start", 0, totalToScan)
            /\ UNCHANGED <<cancelCurrentScan, ctxCancelled, activeScans, audit,
                           scanPaths, totalToScan, scannedCount, totalFiles,
                           totalRisk, report>>
    /\ UNCHANGED <<started, tickerVars, stopClosed, trigger, stopPc, panicked,
                   certRequested, certPath, status, certError, auditAtEntry, cfg, calls, lastLoop,
                   cancelAt, c3Ghosts>>

\* AnalyzeDirectory returned for the current root without error: add its
\* report to the totals and go to the next root, or to the final stage.
\* rep is the report the directory walk produced.
RootDone(rep) ==
    /\ totalFiles' = totalFiles + rep.TotalFiles
    /\ totalRisk' = totalRisk + rep.TotalRiskScore
    /\ report' = EmptyReport
    /\ IF rootIdx < Len(scanPaths)
       THEN /\ pc' = "analyze"
            /\ rootIdx' = rootIdx + 1
            /\ entryIdx' = 1
       ELSE /\ pc' = "finish"
            /\ UNCHANGED <<rootIdx, entryIdx>>

\* The walk callback of AnalyzeDirectory returned nil for the current entry.
NextEntry(rep) ==
    IF entryIdx < Len(CurrentEntries)
    THEN /\ pc' = "analyze"
         /\ entryIdx' = entryIdx + 1
         /\ report' = rep
         /\ UNCHANGED <<rootIdx, totalFiles, totalRisk>>
    ELSE RootDone(rep)

\* Analyze phase, one WalkDir callback of AnalyzeDirectory up to the call of
\* AnalyzeFileRisk: poll, skip directories and unsupported extensions, call
\* the progress callback, count the file.  A cancelled callback ends the walk
\* with context.Canceled; executeScan then reports the cancellation, and any
\* other error is reported with the path and the next root is tried.
Analyze ==
    /\ pc = "analyze" /\ ~panicked
    /\ IF ctxCancelled
       THEN IF IsUserCancel(ctxCancelled)
            THEN Abort
            ELSE /\ Emit("error:path")
                 /\ report' = EmptyReport
                 /\ IF rootIdx < Len(scanPaths)
                    THEN /\ rootIdx' = rootIdx + 1
                         /\ entryIdx' = 1
                         /\ UNCHANGED pc
                    ELSE /\ pc' = "finish"
                         /\ UNCHANGED <<rootIdx, entryIdx>>
                 /\ UNCHANGED <<cancelCurrentScan, ctxCancelled, activeScans,
                                audit, scanPaths, totalToScan, scannedCount,
                                totalFiles, totalRisk>>
       ELSE /\ IF CurrentEntries[entryIdx] = "file"
               THEN /\ scannedCount' = scannedCount + 1
                    /\ EmitWith("progress", ProgressCurrent(scannedCount),
                                totalToScan)
                    /\ report' = [report EXCEPT !.TotalFiles = @ + 1]
                    /\ pc' = "file"
                    /\ UNCHANGED <<rootIdx, entryIdx, totalFiles, totalRisk>>
               ELSE /\ NextEntry(report)
                    /\ UNCHANGED <<scannedCount, scanLog, scanData>>
            /\ UNCHANGED <<cancelCurrentScan, ctxCancelled, activeScans, audit,
                           scanPaths, totalToScan>>
    /\ UNCHANGED <<started, tickerVars, stopClosed, trigger, stopPc, panicked,
                   certRequested, certPath, status, certError, auditAtEntry, cfg, calls, lastLoop,
                   cancelAt, c3Ghosts>>

\* Analyze phase, the rest of the callback: AnalyzeFileRisk and the
\* accumulation of a profile with RiskScore > 0 into the report.
AnalyzeFile ==
    /\ pc = "file" /\ ~panicked
    /\ \E s \in FileScores :
         NextEntry([report EXCEPT !.TotalRiskScore = IF s > 0 THEN @ + s ELSE @])
    /\ UNCHANGED <<started, tickerVars, stopClosed, trigger, cancelCurrentScan,
                   ctxCancelled, stopPc, panicked, scanPaths, totalToScan,
                   scannedCount, certRequested, certPath, status, certError, auditAtEntry, cfg,
                   audit, scanLog, scanData, calls, activeScans, lastLoop, cancelAt,
                   c3Ghosts>>

\* Lines 274-323: status; on a passed scan with files the certificate is
\* requested and its failure only leaves the path empty; audit entry;
\* scan-complete; return.
Finish ==
    /\ pc = "finish" /\ ~panicked
    /\ status' = StatusOf(totalRisk)
    /\ \E certOk \in BOOLEAN :
         LET wanted == totalRisk <= 0 /\ totalFiles > 0
         IN  /\ certRequested' = wanted
             /\ certError' = (wanted /\ ~certOk)
             /\ certPath' = IF wanted THEN CertPathOf(certOk) ELSE ""
    /\ audit' = Append(audit, [Status |-> status', TotalFiles |-> totalFiles,
                               RiskScore |-> totalRisk])
    /\ scanLog' = scanLog \o <<"audit", "complete">>
    /\ scanData' = scanData \o <<[current |-> 0, total |-> 0],
                                  [current |-> 0, total |-> 0]>>
    /\ ReturnFromScan
    /\ UNCHANGED <<started, tickerVars, stopClosed, trigger, ctxCancelled,
                   stopPc, panicked, scanPaths, rootIdx, entryIdx, totalToScan,
                   scannedCount, totalFiles, totalRisk, report, auditAtEntry,
                   cfg, calls, lastLoop, cancelAt, c3Ghosts>>

\* ------------------------------------------------------ exported methods
\* The mutex-protected body of CancelScan: cancel and clear the handle when
\* one is installed.  The history variable records where the scan stood.
CancelBodyClearOnly ==
    IF cancelCurrentScan
    THEN /\ cancelCurrentScan' = FALSE
         /\ cancelAt' = [at |-> pc, analysed |-> scannedCount,
                         pollsLeft |-> PollsLeft]
         /\ UNCHANGED ctxCancelled
    ELSE UNCHANGED <<ctxCancelled, cancelCurrentScan, cancelAt>>

CancelBody ==
    IF cancelCurrentScan
    THEN /\ ctxCancelled' = TRUE
         /\ cancelCurrentScan' = FALSE
         /\ cancelAt' = [at |-> pc, analysed |-> scannedCount,
                         pollsLeft |-> PollsLeft]
    ELSE UNCHANGED <<ctxCancelled, cancelCurrentScan, cancelAt>>

CancelScan ==
    /\ started /\ ~panicked /\ calls < MaxCalls
    /\ calls' = calls + 1
    /\ CancelBody
    /\ idleCancels' = (idleCancels \/ activeScans = 0)
    /\ UNCHANGED <<pc, started, tickerVars, stopClosed, trigger, stopPc,
                   panicked, scanLocals, cfg, audit, scanLog, scanData,
                   activeScans, lastLoop, firstCalls, rapidCalls, manualScans,
                   manualLoadFail>>

\* RunNow: non-blocking send on the trigger channel; the default branch
\* drops the request when the buffer is full.
RunNow ==
    /\ started /\ ~panicked /\ calls < MaxCalls
    /\ SendReady(trigger)
    /\ calls' = calls + 1
    /\ trigger' = IF trigger < TriggerCap THEN trigger + 1 ELSE trigger
    /\ firstCalls' = IF trigger = 0 THEN firstCalls + 1 ELSE firstCalls
    /\ rapidCalls' = IF trigger = 0 THEN rapidCalls ELSE rapidCalls + 1
    /\ UNCHANGED <<pc, started, tickerVars, stopClosed, cancelCurrentScan,
                   ctxCancelled, stopPc, panicked, scanLocals, cfg, audit,
                   scanLog, scanData, activeScans, lastLoop, cancelAt, manualScans,
                   manualLoadFail, idleCancels>>

\* Stop, up to the close: stop the ticker when Start created one, then
\* CancelScan.
StopBegin ==
    /\ started /\ ~panicked /\ calls < MaxCalls
    /\ stopPc = "idle"
    /\ calls' = calls + 1
    /\ stopPc' = "close"
    /\ IF pc = "norun"
       THEN UNCHANGED tickerVars
       ELSE /\ tickerArmed' = FALSE
            /\ tickPending' \in {tickPending, FALSE}
            /\ UNCHANGED tickDuringScan
    /\ CancelBody
    /\ UNCHANGED <<pc, started, stopClosed, trigger, panicked, scanLocals,
                   cfg, audit, scanLog, scanData, activeScans, lastLoop, c3Ghosts>>

\* Stop, `close(s.stop)`: closing a closed channel is a runtime panic.
StopClose ==
    /\ stopPc = "close" /\ ~panicked
    /\ stopPc' = "idle"
    /\ IF stopClosed
       THEN /\ panicked' = TRUE
            /\ UNCHANGED stopClosed
       ELSE /\ stopClosed' = TRUE
            /\ UNCHANGED panicked
    /\ UNCHANGED <<pc, started, tickerVars, trigger, cancelCurrentScan,
                   ctxCancelled, scanLocals, cfg, audit, scanLog, scanData, calls,
                   activeScans, lastLoop, cancelAt, c3Ghosts>>

\* The runtime delivers a tick of a running ticker into the one-slot
\* channel; a tick that finds the slot full is discarded by the runtime.
TickerFire ==
    /\ tickerArmed /\ ~tickPending /\ ~panicked /\ calls < MaxCalls
    /\ calls' = calls + 1
    /\ tickPending' = TickBuffered(LoopAtSelect)
    /\ tickDuringScan' = (activeScans > 0)
    /\ UNCHANGED <<pc, started, tickerArmed, stopClosed, trigger,
                   cancelCurrentScan, ctxCancelled, stopPc, panicked,
                   scanLocals, cfg, audit, scanLog, scanData, activeScans, lastLoop,
                   cancelAt, c3Ghosts>>

\* Store.Save of the schedule settings by another part of the application.
SaveConfig ==
    /\ started /\ ~panicked /\ calls < MaxCalls
    /\ calls' = calls + 1
    /\ \E c \in Configs \ {cfg} : cfg' = c
    /\ UNCHANGED <<pc, started, tickerVars, stopClosed, trigger,
                   cancelCurrentScan, ctxCancelled, stopPc, panicked,
                   scanLocals, audit, scanLog, scanData, activeScans, lastLoop,
                   cancelAt, c3Ghosts>>

\* ------------------------------------------------------ AnalyzeFileRisk
\* The eleven patterns whose matches are added to profile.RiskScore in the
\* line loop, with their weights, and the SSN pattern, which only counts.
Categories == {"ssn", "cc", "phone", "email", "mrn", "date", "ip", "url",
               "account", "license", "vin", "zip"}

Weight(cat) ==
    CASE cat = "cc" -> 10
      [] cat = "phone" -> 5
      [] cat = "email" -> 5
      [] cat = "mrn" -> 15
      [] cat = "date" -> 10
      [] cat = "ip" -> 3
      [] cat = "url" -> 5
      [] cat = "account" -> 10
      [] cat = "license" -> 8
      [] cat = "vin" -> 8
      [] cat = "zip" -> 3
      [] OTHER -> 0

\* Results of Classifier.Classify: Generic comes with confidence 0, a
\* winning category with more than half of the total score.
ClassifierOutputs ==
    {<<"Generic", 0>>} \cup ({"Medical", "Financial"} \X {55, 81, 100})

\* RiskProfile{FilePath: path}: the zero value of every other field.
ZeroProfile == [RiskScore |-> 0, SSNCount |-> 0, HasDiagnosis |-> FALSE,
                RiskLabel |-> "", EstimatedFine |-> 0]

\* Scoring stage, lines 277-295: the local variable score.
FinalScore(p, cat, conf, pub) ==
    p.SSNCount * 10
    + (IF p.HasDiagnosis THEN 50 ELSE 0)
    + (IF cat = "Medical" /\ conf > 80 /\ p.SSNCount > 0 THEN 300 ELSE 0)
    + (IF pub /\ p.SSNCount > 0 THEN 200 ELSE 0)

\* Final labeling, lines 297-309.  The last branch sets the label only.
FinalLabeling(p, s) ==
    IF s > 100 THEN [p EXCEPT !.RiskScore = 100, !.RiskLabel = "CRITICAL"]
    ELSE IF s >= 50 THEN [p EXCEPT !.RiskScore = s, !.RiskLabel = "High"]
    ELSE IF s > 0 THEN [p EXCEPT !.RiskScore = s, !.RiskLabel = "Low"]
    ELSE [p EXCEPT !.RiskLabel = "Safe"]

\* Line 311.
EstimatedFine(p) == (p.SSNCount * 100) + (p.RiskScore * 50)

RiskIdle ==
    /\ fpc = "idle" /\ lineNum = 0 /\ profile = ZeroProfile /\ score = 0
    /\ category = "Generic" /\ confidence = 0 /\ publicName = FALSE

\* AnalyzeFileRisk is called on a file: the classifier's verdict on its text
\* and whether its base name contains "marketing" or "public".
RiskInit ==
    /\ fpc = "extract" /\ lineNum = 0 /\ profile = ZeroProfile /\ score = 0
    /\ \E co \in ClassifierOutputs : category = co[1] /\ confidence = co[2]
    /\ publicName \in BOOLEAN

\* content.ExtractText: on an error the zero profile is returned.
Extract ==
    /\ fpc = "extract"
    /\ \E ok \in BOOLEAN : fpc' = IF ok THEN "scan" ELSE "done"
    /\ UNCHANGED <<lineNum, profile, score, category, confidence, publicName>>

\* One iteration of the scanner loop over a line holding n matches of the
\* pattern cat and, when kw, one of the sensitive keywords.
ScanLine ==
    /\ fpc = "scan" /\ lineNum < MaxLines
    /\ \E cat \in Categories, n \in 0..MaxPerLine, kw \in BOOLEAN :
         /\ lineNum' = lineNum + 1
         /\ profile' = [profile EXCEPT
                !.SSNCount = IF cat = "ssn" THEN @ + n ELSE @,
                !.RiskScore = @ + n * Weight(cat),
                !.HasDiagnosis = @ \/ kw]
    /\ UNCHANGED <<fpc, score, category, confidence, publicName>>

\* The scanner is exhausted: scoring stage, labeling, fine, return.
ScoreFile ==
    /\ fpc = "scan"
    /\ fpc' = "done"
    /\ LET s == FinalScore(profile, category, confidence, publicName)
           p == FinalLabeling(profile, s)
       IN  /\ score' = s
           /\ profile' = [p EXCEPT !.EstimatedFine = EstimatedFine(p)]
    /\ UNCHANGED <<lineNum, category, confidence, publicName>>

\* ---------------------------------------------------- Classifier.Classify
\* train: the weights of a high and a medium keyword (3.0 and 1.5) and of a
\* bigram (5.0); Classify: the boost per matching PHI pattern (10.0).  Scores
\* are kept in halves of a point, so that every weight is an integer.
HighWeight == 6
MedWeight == 3
BigramWeight == 10
PhiBoost == 20
\* compilePHIPatterns: the number of PHI patterns.
PhiPatterns == 5

\* A text, by what Classify looks at: whether strings.Fields yields any
\* token, how many tokens are high and medium keywords of each category, how
\* many adjacent pairs are bigrams of each category, and how many PHI
\* patterns match.  A text without tokens has none of these.
FeatureNames == {"medHigh", "medMed", "finHigh", "finMed", "medBigram",
                 "finBigram"}

Docs ==
    {d \in [tokens : BOOLEAN, hits : [FeatureNames -> 0..MaxHits],
            phi : 0..(IF MaxHits < PhiPatterns THEN MaxHits ELSE PhiPatterns)] :
        ~d.tokens => (d.phi = 0 /\ \A f \in FeatureNames : d.hits[f] = 0)}

NoDoc == [tokens |-> FALSE, hits |-> [f \in FeatureNames |-> 0], phi |-> 0]

NoVerdict == [type |-> "", confidence |-> 0]

\* `if medScore > finScore { ... return TypeMedical } else { ... TypeFinancial }`
MedicalWinsOnTie(med, fin) == med >= fin
MedicalWins(med, fin) == med > fin

\* The integer part of 90 + 10 * log10(score / 10) for a score above 10:
\* one more for each power 10^(k/10), k = 1..10, that score / 10 reaches
\* (the thresholds are those powers times 20, rounded up to whole halves).
Smoothed(s) ==
    90 + Cardinality({t \in {26, 32, 40, 51, 64, 80, 101, 127, 159, 200} :
                         t <= s})

\* The integer part of the confidence of a winning score s out of total.
ConfidenceOf(s, total) ==
    LET c == IF s > 20 THEN Smoothed(s) ELSE (100 * s) \div total
    IN  IF c > 100 THEN 100 ELSE c

ClassIdle ==
    /\ cpc = "idle" /\ doc = NoDoc /\ medScore = 0 /\ finScore = 0
    /\ classified = NoVerdict

\* Classify is called on a text.
ClassInit ==
    /\ cpc = "tokens" /\ doc \in Docs /\ medScore = 0 /\ finScore = 0
    /\ classified = NoVerdict

\* Steps 1 and 2: normalise and split; no token returns Generic; otherwise
\* add the weight of every keyword token.
ClassifyTokens ==
    /\ cpc = "tokens"
    /\ IF ~doc.tokens
       THEN /\ cpc' = "done"
            /\ classified' = [type |-> "Generic", confidence |-> 0]
            /\ UNCHANGED <<medScore, finScore>>
       ELSE /\ cpc' = "bigrams"
            /\ medScore' = medScore + doc.hits["medHigh"] * HighWeight
                                    + doc.hits["medMed"] * MedWeight
            /\ finScore' = finScore + doc.hits["finHigh"] * HighWeight
                                    + doc.hits["finMed"] * MedWeight
            /\ UNCHANGED classified
    /\ UNCHANGED doc

\* Step 3: add the weight of every bigram of adjacent tokens.
ClassifyBigrams ==
    /\ cpc = "bigrams"
    /\ cpc' = "phi"
    /\ medScore' = medScore + doc.hits["medBigram"] * BigramWeight
    /\ finScore' = finScore + doc.hits["finBigram"] * BigramWeight
    /\ UNCHANGED <<doc, classified>>

\* Step 4: the boost of the medical score per matching PHI pattern.
ClassifyPHI ==
    /\ cpc = "phi"
    /\ cpc' = "decide"
    /\ medScore' = medScore + doc.phi * PhiBoost
    /\ UNCHANGED <<doc, finScore, classified>>

\* Step 5: Generic on a zero total, otherwise the comparison of the scores.
ClassifyDecide ==
    /\ cpc = "decide"
    /\ cpc' = "done"
    /\ LET total == medScore + finScore
       IN  classified' =
             IF total = 0 THEN [type |-> "Generic", confidence |-> 0]
             ELSE IF MedicalWins(medScore, finScore)
                  THEN [type |-> "Medical",
                        confidence |-> ConfidenceOf(medScore, total)]
                  ELSE [type |-> "Financial",
                        confidence |-> ConfidenceOf(finScore, total)]
    /\ UNCHANGED <<doc, medScore, finScore>>

\* ------------------------------------------ the application's schedulers
\* The Scheduler instances the application creates: one at startup, one per
\* UpdateScheduleConfig call.
SchedIds == 1..(MaxUpdates + 1)

AppConfigs == [Enabled : BOOLEAN, IntervalHours : {0, 1},
               ScanPaths : {<< >>, <<"A">>}]

\* A Scheduler that has not been created yet.
NoScheduler ==
    [pc |-> "none", stopClosed |-> FALSE, handle |-> FALSE, ctxDone |-> FALSE,
     trigger |-> 0, tickerArmed |-> FALSE, tickPending |-> FALSE,
     paths |-> << >>, polls |-> 0]

\* NewScheduler followed by Start with the configuration c in the store:
\* a failed Load returns the error and spawns no run loop; otherwise the
\* ticker is set up and run starts with its immediate scan or at its select.
Started(c, loadOk) ==
    IF ~loadOk
    THEN [NoScheduler EXCEPT !.pc = "norun"]
    ELSE [NoScheduler EXCEPT
            !.pc = IF InitialScan(c) THEN "enter" ELSE "select",
            !.paths = IF InitialScan(c) THEN c.ScanPaths ELSE << >>,
            !.tickerArmed = TickerRunning(c)]

\* The mutex-protected body of CancelScan on one instance.
Cancelled(r) ==
    IF r.handle THEN [r EXCEPT !.ctxDone = TRUE, !.handle = FALSE] ELSE r

\* Stop on one instance: ticker stopped, CancelScan, stop channel closed.
\* Stop returns without waiting for the run loop or for a scan in progress.
\* keepTick: whether a tick already sent stays readable.
Stopped(r, keepTick) ==
    [Cancelled(r) EXCEPT !.tickerArmed = FALSE,
                         !.tickPending = @ /\ keepTick,
                         !.stopClosed = TRUE]

\* The instance is executing the body of executeScan.
Scanning(i) == sch[i].pc \in {"scan", "tail"}

AppIdle ==
    /\ app = [scheduler |-> 0, updates |-> 0, calls |-> 0, audits |-> 0]
    /\ appCfg = [Enabled |-> FALSE, IntervalHours |-> 0, ScanPaths |-> << >>]
    /\ sch = [i \in SchedIds |-> NoScheduler]

\* The application before startup, with some configuration in the store.
AppInit ==
    /\ app = [scheduler |-> 0, updates |-> 0, calls |-> 0, audits |-> 0]
    /\ appCfg \in AppConfigs
    /\ sch = [i \in SchedIds |-> NoScheduler]

\* App.startup: create the first Scheduler and start it.
startup ==
    /\ app.scheduler = 0
    /\ \E loadOk \in BOOLEAN :
         sch' = [sch EXCEPT ![1] = Started(appCfg, loadOk)]
    /\ app' = [app EXCEPT !.scheduler = 1]
    /\ UNCHANGED appCfg

\* App.UpdateScheduleConfig: Save (an error returns at once); Stop the
\* current Scheduler; create a new one and Start it.
UpdateScheduleConfig ==
    /\ app.scheduler # 0 /\ app.updates < MaxUpdates
    /\ \E c \in AppConfigs, saveOk \in BOOLEAN, loadOk \in BOOLEAN,
          keepTick \in BOOLEAN :
         IF ~saveOk
         THEN /\ app' = [app EXCEPT !.updates = @ + 1]
              /\ UNCHANGED <<appCfg, sch>>
         ELSE /\ appCfg' = c
              /\ sch' = [sch EXCEPT
                           ![app.scheduler] = Stopped(@, keepTick),
                           ![app.scheduler + 1] = Started(c, loadOk)]
              /\ app' = [app EXCEPT !.updates = @ + 1,
                                    !.scheduler = @ + 1]

\* App.TriggerScheduledScan: RunNow on the current Scheduler.
TriggerScheduledScan ==
    /\ app.scheduler # 0 /\ app.calls < MaxAppCalls
    /\ app' = [app EXCEPT !.calls = @ + 1]
    /\ sch' = [sch EXCEPT ![app.scheduler].trigger =
                              IF @ < TriggerCap THEN @ + 1 ELSE @]
    /\ UNCHANGED appCfg

\* App.CancelScheduledScan: CancelScan on the current Scheduler.
CancelScheduledScan ==
    /\ app.scheduler # 0 /\ app.calls < MaxAppCalls
    /\ app' = [app EXCEPT !.calls = @ + 1]
    /\ sch' = [sch EXCEPT ![app.scheduler] = Cancelled(@)]
    /\ UNCHANGED appCfg

\* The runtime delivers a tick of instance i's running ticker.
AppTickerFire(i) ==
    /\ sch[i].tickerArmed /\ ~sch[i].tickPending
    /\ app.calls < MaxAppCalls
    /\ app' = [app EXCEPT !.calls = @ + 1]
    /\ sch' = [sch EXCEPT ![i].tickPending = TRUE]
    /\ UNCHANGED appCfg

\* run of instance i, `case <-s.ticker.C`.
AppOnTick(i) ==
    /\ sch[i].pc = "select" /\ sch[i].tickPending
    /\ \E loadOk \in BOOLEAN :
         sch' = [sch EXCEPT
                   ![i].tickPending = FALSE,
                   ![i].pc = IF TickRuns(loadOk, appCfg.Enabled)
                             THEN "enter" ELSE @,
                   ![i].paths = IF TickRuns(loadOk, appCfg.Enabled)
                                THEN appCfg.ScanPaths ELSE @]
    /\ UNCHANGED <<app, appCfg>>

\* run of instance i, `case <-s.trigger`.
AppOnTrigger(i) ==
    /\ sch[i].pc = "select" /\ sch[i].trigger > 0
    /\ \E loadOk \in BOOLEAN :
         sch' = [sch EXCEPT
                   ![i].trigger = @ - 1,
                   ![i].pc = IF TriggerRuns(loadOk, appCfg.Enabled)
                             THEN "enter" ELSE @,
                   ![i].paths = IF TriggerRuns(loadOk, appCfg.Enabled)
                                THEN appCfg.ScanPaths ELSE @]
    /\ UNCHANGED <<app, appCfg>>

\* run of instance i, `case <-s.stop`.
AppOnStop(i) ==
    /\ sch[i].pc = "select" /\ sch[i].stopClosed
    /\ \E keepTick \in BOOLEAN :
         sch' = [sch EXCEPT ![i].pc = "done",
                            ![i].tickerArmed = FALSE,
                            ![i].tickPending = @ /\ keepTick]
    /\ UNCHANGED <<app, appCfg>>

\* executeScan of instance i up to the installed handle; the scan that
\* follows polls its context `polls` times.
AppExecGuard(i) ==
    /\ sch[i].pc = "enter"
    /\ IF Len(sch[i].paths) = 0
       THEN sch' = [sch EXCEPT ![i].pc = "select"]
       ELSE \E n \in 1..MaxPolls :
              sch' = [sch EXCEPT ![i].pc = "scan", ![i].handle = TRUE,
                                 ![i].ctxDone = FALSE, ![i].polls = n]
    /\ UNCHANGED <<app, appCfg>>

\* One poll of ctx.Done() by the scan of instance i: a cancelled scan emits
\* its cancellation notification and returns; after its last poll the scan
\* goes on to analyse its last file and to its final stage.
AppScanPoll(i) ==
    /\ sch[i].pc = "scan"
    /\ sch' = [sch EXCEPT
                 ![i].pc = IF sch[i].ctxDone THEN "select"
                           ELSE IF sch[i].polls > 1 THEN "scan" ELSE "tail",
                 ![i].handle = IF sch[i].ctxDone THEN FALSE ELSE @,
                 ![i].polls = IF sch[i].ctxDone THEN 0 ELSE @ - 1]
    /\ UNCHANGED <<app, appCfg>>

\* The final stage of the scan of instance i: audit entry, scan-complete,
\* return.
AppFinish(i) ==
    /\ sch[i].pc = "tail"
    /\ sch' = [sch EXCEPT ![i].pc = "select", ![i].handle = FALSE]
    /\ app' = [app EXCEPT !.audits = @ + 1]
    /\ UNCHANGED appCfg

\* ------------------------------------------------- RiskEngine.RedactContent
\* Text is a sequence of one-character strings.
Class ==
    LET digit == {"0", "1", "2", "3", "4", "5", "6", "7", "8", "9"}
        upper == {"A", "B", "C", "D", "E", "F", "G", "H", "I", "J", "K", "L",
                  "M", "N", "O", "P", "Q", "R", "S", "T", "U", "V", "W", "X",
                  "Y", "Z"}
        lower == {"a", "b", "c", "d", "e", "f", "g", "h", "i", "j", "k", "l",
                  "m", "n", "o", "p", "q", "r", "s", "t", "u", "v", "w", "x",
                  "y", "z"}
    IN  [digit |-> digit, upper |-> upper, lower |-> lower,
         alnum |-> upper \cup lower \cup digit,
         \* \w and \s of the regexp package
         word |-> upper \cup lower \cup digit \cup {"_"},
         space |-> {" ", "\t", "\n", "\f", "\r"}]

\* Regular expressions as trees: a character class, the assertion \b, a
\* concatenation, an alternation (left branch preferred) and a greedy
\* repetition {lo,hi}.
Chr(set) == [t |-> "chr", set |-> set]
WB == [t |-> "wb"]
Cat(items) == [t |-> "cat", items |-> items]
Alt(a, b) == [t |-> "alt", a |-> a, b |-> b]
Rep(r, lo, hi) == [t |-> "rep", r |-> r, lo |-> lo, hi |-> hi]
Opt(r) == Rep(r, 0, 1)
\* The upper limit of *, + and {n,}: more than any text of the model holds.
MaxRepeat == 200
Star(r) == Rep(r, 0, MaxRepeat)
Plus(r) == Rep(r, 1, MaxRepeat)
Lit(chars) == Cat([i \in DOMAIN chars |-> Chr({chars[i]})])

\* \b before position i of s (i = Len(s) + 1 is the end of the text).
AtWordBoundary(s, i) ==
    LET before == i > 1 /\ s[i - 1] \in Class.word
        after == i <= Len(s) /\ s[i] \in Class.word
    IN  before # after

\* The leftmost-first match of the sequence of expressions rs at position i
\* of s: the position after the match, or 0 when there is none.  The rest of
\* the sequence is the continuation, so that a repetition or an alternation
\* gives back what the continuation needs.  A repetition is greedy: of a
\* character class it takes the longest run the continuation accepts, of
\* anything else one more round before it tries none.
RECURSIVE MatchSeq(_, _, _)
MatchSeq(rs, s, i) ==
    IF Len(rs) = 0 THEN i
    ELSE LET h == Head(rs)
             rest == Tail(rs)
         IN  CASE h.t = "chr" ->
                    IF i <= Len(s) /\ s[i] \in h.set
                    THEN MatchSeq(rest, s, i + 1) ELSE 0
               [] h.t = "wb" ->
                    IF AtWordBoundary(s, i) THEN MatchSeq(rest, s, i) ELSE 0
               [] h.t = "cat" -> MatchSeq(h.items \o rest, s, i)
               [] h.t = "alt" ->
                    LET left == MatchSeq(<<h.a>> \o rest, s, i)
                    IN  IF left # 0 THEN left
                        ELSE MatchSeq(<<h.b>> \o rest, s, i)
               [] h.t = "rep" /\ h.r.t = "chr" ->
                    LET runs == {n \in h.lo..h.hi :
                                   /\ i + n - 1 <= Len(s)
                                   /\ \A j \in i..(i + n - 1) :
                                        s[j] \in h.r.set}
                        good == {n \in runs : MatchSeq(rest, s, i + n) # 0}
                        longest == CHOOSE n \in good : \A m \in good : m <= n
                    IN  IF good = {} THEN 0
                        ELSE MatchSeq(rest, s, i + longest)
               [] h.t = "rep" /\ h.r.t # "chr" ->
                    LET again == Rep(h.r, IF h.lo > 0 THEN h.lo - 1 ELSE 0,
                                     h.hi - 1)
                        more == IF h.hi > 0
                                THEN MatchSeq(<<h.r, again>> \o rest, s, i)
                                ELSE 0
                    IN  IF more # 0 THEN more
                        ELSE IF h.lo = 0 THEN MatchSeq(rest, s, i) ELSE 0

\* Regexp.ReplaceAllString from position i on: every non-overlapping match,
\* leftmost first, is replaced by repl.
RECURSIVE ReplaceFrom(_, _, _, _)
ReplaceFrom(re, s, repl, i) ==
    LET starts == {j \in i..Len(s) : MatchSeq(<<re>>, s, j) # 0}
        first == CHOOSE j \in starts : \A k \in starts : j <= k
    IN  IF starts = {} THEN SubSeq(s, i, Len(s))
        ELSE SubSeq(s, i, first - 1) \o repl
             \o ReplaceFrom(re, s, repl, MatchSeq(<<re>>, s, first))

ReplaceAllString(re, s, repl) == ReplaceFrom(re, s, repl, 1)

\* NewRiskEngine: the twelve patterns RedactContent uses.
Node ==
    [d |-> Chr(Class.digit), dash |-> Chr({"-"}), dot |-> Chr({"."}),
     blank |-> Chr(Class.space), upperOrDigit |-> Chr(Class.upper \cup Class.digit)]

\* \b\d{3}-?\d{2}-?\d{4}\b
SsnRegex ==
    Cat(<<WB, Rep(Node.d, 3, 3), Opt(Node.dash), Rep(Node.d, 2, 2), Opt(Node.dash), Rep(Node.d, 4, 4),
          WB>>)

\* \b\d{4}[\s-]?\d{4}[\s-]?\d{4}[\s-]?\d{4}\b
CcRegex ==
    LET sep == Opt(Chr(Class.space \cup {"-"}))
    IN  Cat(<<WB, Rep(Node.d, 4, 4), sep, Rep(Node.d, 4, 4), sep, Rep(Node.d, 4, 4), sep,
              Rep(Node.d, 4, 4), WB>>)

\* \b(?:\+?1[\s.-]?)?\(?\d{3}\)?[\s.-]?\d{3}[\s.-]?\d{4}\b
PhoneRegex ==
    LET sep == Opt(Chr(Class.space \cup {".", "-"}))
    IN  Cat(<<WB, Opt(Cat(<<Opt(Chr({"+"})), Chr({"1"}), sep>>)),
              Opt(Chr({"("})), Rep(Node.d, 3, 3), Opt(Chr({")"})), sep,
              Rep(Node.d, 3, 3), sep, Rep(Node.d, 4, 4), WB>>)

\* \b[A-Za-z0-9._%+-]+@[A-Za-z0-9.-]+\.[A-Z|a-z]{2,}\b
EmailRegex ==
    Cat(<<WB, Plus(Chr(Class.alnum \cup {".", "_", "%", "+", "-"})), Chr({"@"}),
          Plus(Chr(Class.alnum \cup {".", "-"})), Node.dot,
          Rep(Chr(Class.upper \cup Class.lower \cup {"|"}), 2, MaxRepeat), WB>>)

\* \b(?:MRN|M\.?R\.?N\.?)[:\s#]*[A-Z0-9]{6,12}\b|\b[A-Z]{2,3}\d{6,9}\b
MrnRegex ==
    Alt(Cat(<<WB,
              Alt(Lit(<<"M", "R", "N">>),
                  Cat(<<Chr({"M"}), Opt(Node.dot), Chr({"R"}), Opt(Node.dot),
                        Chr({"N"}), Opt(Node.dot)>>)),
              Star(Chr(Class.space \cup {":", "#"})), Rep(Node.upperOrDigit, 6, 12),
              WB>>),
        Cat(<<WB, Rep(Chr(Class.upper), 2, 3), Rep(Node.d, 6, 9), WB>>))

\* \b(?:DOB|Date of Birth|Admitted|Discharged|Born|D\.O\.B\.?)\s*:?\s*
\*   \d{1,2}[/-]\d{1,2}[/-]\d{2,4}\b|\b\d{1,2}[/-]\d{1,2}[/-]\d{2,4}\b
DateRegex ==
    LET sep == Chr({"/", "-"})
        digits ==
            Cat(<<Rep(Node.d, 1, 2), sep, Rep(Node.d, 1, 2), sep, Rep(Node.d, 2, 4)>>)
        label ==
            Alt(Lit(<<"D", "O", "B">>),
            Alt(Lit(<<"D", "a", "t", "e", " ", "o", "f", " ", "B", "i", "r",
                      "t", "h">>),
            Alt(Lit(<<"A", "d", "m", "i", "t", "t", "e", "d">>),
            Alt(Lit(<<"D", "i", "s", "c", "h", "a", "r", "g", "e", "d">>),
            Alt(Lit(<<"B", "o", "r", "n">>),
                Cat(<<Lit(<<"D", ".", "O", ".", "B">>), Opt(Node.dot)>>))))))
    IN  Alt(Cat(<<WB, label, Star(Node.blank), Opt(Chr({":"})), Star(Node.blank),
                  digits, WB>>),
            Cat(<<WB, digits, WB>>))

\* \b(?:\d{1,3}\.){3}\d{1,3}\b
IpRegex ==
    Cat(<<WB, Rep(Cat(<<Rep(Node.d, 1, 3), Node.dot>>), 3, 3), Rep(Node.d, 1, 3), WB>>)

\* \b(?:https?://|www\.)[-A-Za-z0-9+&@#/%?=~_|!:,.;]*[-A-Za-z0-9+&@#/%=~_|]
UrlRegex ==
    LET last == Class.alnum \cup
                {"-", "+", "&", "@", "#", "/", "%", "=", "~", "_", "|"}
    IN  Cat(<<WB,
              Alt(Cat(<<Lit(<<"h", "t", "t", "p">>), Opt(Chr({"s"})),
                        Lit(<<":", "/", "/">>)>>),
                  Lit(<<"w", "w", "w", ".">>)),
              Star(Chr(last \cup {"?", "!", ":", ",", ".", ";"})),
              Chr(last)>>)

\* \b(?:Account|Acct|Patient)\s*#?:?\s*[A-Z0-9]{6,15}\b
NumberTail ==
    Cat(<<Star(Node.blank), Opt(Chr({"#"})), Opt(Chr({":"})), Star(Node.blank),
          Rep(Node.upperOrDigit, 6, 15), WB>>)
AccountRegex ==
    Cat(<<WB,
          Alt(Lit(<<"A", "c", "c", "o", "u", "n", "t">>),
          Alt(Lit(<<"A", "c", "c", "t">>),
              Lit(<<"P", "a", "t", "i", "e", "n", "t">>))),
          NumberTail>>)

\* \b(?:DL|Driver'?s? License|License)\s*#?:?\s*[A-Z0-9]{6,15}\b
LicenseRegex ==
    LET license == Lit(<<"L", "i", "c", "e", "n", "s", "e">>)
    IN  Cat(<<WB,
              Alt(Lit(<<"D", "L">>),
              Alt(Cat(<<Lit(<<"D", "r", "i", "v", "e", "r">>),
                        Opt(Chr({"'"})), Opt(Chr({"s"})), Chr({" "}),
                        license>>),
                  license)),
              NumberTail>>)

\* \b[A-HJ-NPR-Z0-9]{17}\b
VinRegex ==
    Cat(<<WB, Rep(Chr((Class.upper \ {"I", "O", "Q"}) \cup Class.digit), 17, 17), WB>>)

\* \b\d{5}(?:-\d{4})?\b
ZipRegex ==
    Cat(<<WB, Rep(Node.d, 5, 5), Opt(Cat(<<Node.dash, Rep(Node.d, 4, 4)>>)), WB>>)

\* The placeholders.
Redacted(kind) ==
    <<"[", "R", "E", "D", "A", "C", "T", "E", "D", "-">> \o kind \o <<"]">>

ZipTokenDigits == <<"[", "0", "0", "0", "0", "0", "]">>
ZipToken == Redacted(<<"Z", "I", "P">>)

\* RedactContent: the patterns and their placeholders in the order of the
\* ReplaceAllString calls.
Redactions ==
    <<[re |-> SsnRegex, token |-> Redacted(<<"S", "S", "N">>)],
      [re |-> CcRegex, token |-> Redacted(<<"C", "C">>)],
      [re |-> PhoneRegex, token |-> Redacted(<<"P", "H", "O", "N", "E">>)],
      [re |-> EmailRegex, token |-> Redacted(<<"E", "M", "A", "I", "L">>)],
      [re |-> MrnRegex, token |-> Redacted(<<"M", "R", "N">>)],
      [re |-> DateRegex, token |-> Redacted(<<"D", "A", "T", "E">>)],
      [re |-> IpRegex, token |-> Redacted(<<"I", "P">>)],
      [re |-> UrlRegex, token |-> Redacted(<<"U", "R", "L">>)],
      [re |-> AccountRegex,
       token |-> Redacted(<<"A", "C", "C", "O", "U", "N", "T">>)],
      [re |-> LicenseRegex,
       token |-> Redacted(<<"L", "I", "C", "E", "N", "S", "E">>)],
      [re |-> VinRegex, token |-> Redacted(<<"V", "I", "N">>)],
      [re |-> ZipRegex, token |-> ZipToken]>>

\* Pieces of text: one match of each pattern, the labels the MRN, date,
\* account and license patterns look for, and characters that join them.
Frag ==
    [ssn |-> <<"1", "2", "3", "-", "4", "5", "-", "6", "7", "8", "9">>,
     card |-> <<"4", "1", "1", "1", " ", "1", "1", "1", "1", " ", "1", "1",
         "1", "1", " ", "1", "1", "1", "1">>,
     phone |-> <<"5", "5", "5", "-", "1", "2", "3", "-", "4", "5", "6", "7">>,
     email |-> <<"a", "@", "b", ".", "c", "o">>,
     mrnLabel |-> <<"M", "R", "N", ":">>,
     record |-> <<"A", "B", "1", "2", "3", "4", "5", "6">>,
     date |-> <<"1", "/", "2", "/", "2", "0", "2", "0">>,
     dobLabel |-> <<"D", "O", "B", ":", " ">>,
     ip |-> <<"1", "0", ".", "0", ".", "0", ".", "1">>,
     url |-> <<"w", "w", "w", ".", "a", ".", "i", "o">>,
     acctLabel |-> <<"A", "c", "c", "t", " ", "#">>,
     licenseLabel |-> <<"D", "L", " ">>,
     id |-> <<"X", "1", "Y", "2", "Z", "3">>,
     vin |-> <<"1", "H", "G", "C", "M", "8", "2", "6", "3", "3", "A", "0",
         "0", "4", "3", "5", "2">>,
     zip |-> <<"1", "2", "3", "4", "5">>,
     space |-> <<" ">>,
     dash |-> <<"-">>,
     digit |-> <<"9">>]

Tokens == {Redactions[k].token : k \in DOMAIN Redactions}

\* The texts made of at most n fragments.
RECURSIVE Texts(_)
Texts(n) ==
    IF n = 0 THEN {<< >>}
    ELSE LET shorter == Texts(n - 1)
             fragments == {Frag[k] : k \in DOMAIN Frag}
         IN  shorter \cup {t \o f : t \in shorter, f \in fragments}

RedactIdle ==
    /\ pass = 0 /\ step = 0
    /\ content = << >> /\ text = << >> /\ redacted = << >>

\* RedactContent is called on a text; its result will be redacted again.
RedactInit ==
    /\ pass = 1 /\ step = 1
    /\ content \in Texts(MaxParts) \cup Tokens
    /\ text = content /\ redacted = << >>

\* One `text = e.xRegex.ReplaceAllString(text, "[REDACTED-X]")`.
RedactStep ==
    /\ pass \in {1, 2} /\ step <= Len(Redactions)
    /\ text' = ReplaceAllString(Redactions[step].re, text,
                                Redactions[step].token)
    /\ step' = step + 1
    /\ UNCHANGED <<pass, content, redacted>>

\* `return []byte(text)`: the first result is passed to a second call.
RedactReturn ==
    /\ pass \in {1, 2} /\ step > Len(Redactions)
    /\ pass' = pass + 1
    /\ IF pass = 1
       THEN redacted' = text /\ step' = 1
       ELSE UNCHANGED <<redacted, step>>
    /\ UNCHANGED <<content, text>>

\* ------------------------------------- AnalyzeDirectory, App.ScanDirectory
\* What a file with a supported extension holds: whether ExtractText
\* succeeds, its SSN matches, the sum of the weights of its other matches,
\* whether it holds a sensitive keyword, and whether its name contains
\* "marketing" or "public".
FileContent ==
    [unreadable |-> [ok |-> FALSE, ssn |-> 0, lineScore |-> 0,
                     kw |-> FALSE, pub |-> FALSE],
     clean      |-> [ok |-> TRUE, ssn |-> 0, lineScore |-> 0,
                     kw |-> FALSE, pub |-> FALSE],
     mrns       |-> [ok |-> TRUE, ssn |-> 0, lineScore |-> 7 * Weight("mrn"),
                     kw |-> FALSE, pub |-> FALSE],
     ssn        |-> [ok |-> TRUE, ssn |-> 1, lineScore |-> 0,
                     kw |-> FALSE, pub |-> FALSE],
     ssnKeyword |-> [ok |-> TRUE, ssn |-> 1, lineScore |-> 0,
                     kw |-> TRUE, pub |-> FALSE],
     ssnPublic  |-> [ok |-> TRUE, ssn |-> 1, lineScore |-> 0,
                     kw |-> FALSE, pub |-> TRUE]]

\* The entries WalkDir visits under the scanned path, in visitation order:
\* the root directory, then directories ("dir"), files with an unsupported
\* extension ("other") and supported files, named by what they hold.
Trees ==
    LET kinds == {"dir", "other"} \cup DOMAIN FileContent
    IN  {<<"dir">> \o t : t \in UNION {[1..n -> kinds] : n \in 0..MaxEntries}}

\* AnalyzeFileRisk on a file of the tree (classified Generic): the zero
\* profile when the extraction fails, otherwise the profile the line loop,
\* the scoring stage and the labeling produce.
AnalyzeFileRiskCountsUnreadable(kind) ==
    LET f == FileContent[kind]
        scanned == [ZeroProfile EXCEPT !.SSNCount = f.ssn,
                                       !.RiskScore = f.lineScore,
                                       !.HasDiagnosis = f.kw]
        p == FinalLabeling(scanned, FinalScore(scanned, "Generic", 0, f.pub))
    IN  IF f.ok THEN [p EXCEPT !.EstimatedFine = EstimatedFine(p)]
        ELSE [ZeroProfile EXCEPT !.RiskScore = 1]

AnalyzeFileRisk(kind) ==
    LET f == FileContent[kind]
        scanned == [ZeroProfile EXCEPT !.SSNCount = f.ssn,
                                       !.RiskScore = f.lineScore,
                                       !.HasDiagnosis = f.kw]
        p == FinalLabeling(scanned, FinalScore(scanned, "Generic", 0, f.pub))
    IN  IF f.ok THEN [p EXCEPT !.EstimatedFine = EstimatedFine(p)]
        ELSE ZeroProfile

\* AuditReport{TopOffenders: []RiskProfile{}}; an offender is kept with the
\* index of its entry for FilePath.
EmptyAudit == [TotalFiles |-> 0, TotalRiskScore |-> 0, PotentialLiability |-> 0,
               TopOffenders |-> << >>, CriticalCount |-> 0]

\* NewApp, with the tree t on disk: no ScanDirectory call has been made.
DirInit(t) ==
    /\ dpc = "idle" /\ tree = t /\ dirIdx = 0 /\ dirReport = EmptyAudit
    /\ cancelScan = FALSE /\ scanCtxDone = FALSE
    /\ emitted = << >> /\ returned = "none"
    /\ dcalls = 0 /\ cancelledAt = "none" /\ idleCancel = FALSE

\* ScanDirectory up to the call of AnalyzeDirectory: a context of its own,
\* its cancel function stored in a.cancelScan, scan:dir_start.
ScanDirectory ==
    /\ dpc = "idle" /\ dcalls < MaxScanCalls
    /\ dcalls' = dcalls + 1
    /\ scanCtxDone' = FALSE
    /\ cancelScan' = TRUE
    /\ emitted' = <<"scan:dir_start">>
    /\ dirReport' = EmptyAudit
    /\ dirIdx' = 1
    /\ dpc' = "walk"
    /\ returned' = "none"
    /\ cancelledAt' = "none"
    /\ UNCHANGED <<tree, idleCancel>>

\* The walk callback returned nil for the current entry: the next entry, or
\* WalkDir and AnalyzeDirectory return and ScanDirectory emits
\* scan:dir_complete and returns the report.
DirNext ==
    /\ dirIdx' = dirIdx + 1
    /\ IF dirIdx < Len(tree)
       THEN /\ dpc' = "walk"
            /\ UNCHANGED returned
       ELSE /\ dpc' = "idle"
            /\ returned' = "report"

\* One WalkDir callback of AnalyzeDirectory up to the call of
\* AnalyzeFileRisk: poll the context, skip directories and unsupported
\* extensions, call the progress callback, count the file.  A cancelled
\* callback ends the walk with context.Canceled, on which ScanDirectory emits
\* scan:cancelled and returns an empty report and a nil error.
DirWalk ==
    /\ dpc = "walk"
    /\ IF scanCtxDone
       THEN /\ emitted' = Append(emitted, "scan:cancelled")
            /\ returned' = "empty"
            /\ dpc' = "idle"
            /\ UNCHANGED <<dirIdx, dirReport>>
       ELSE IF tree[dirIdx] \in DOMAIN FileContent
       THEN /\ emitted' = Append(emitted, "scan:progress")
            /\ dirReport' = [dirReport EXCEPT !.TotalFiles = @ + 1]
            /\ dpc' = "file"
            /\ UNCHANGED <<dirIdx, returned>>
       ELSE /\ DirNext
            /\ emitted' = IF dirIdx < Len(tree) THEN emitted
                          ELSE Append(emitted, "scan:dir_complete")
            /\ UNCHANGED dirReport
    /\ UNCHANGED <<tree, cancelScan, scanCtxDone, dcalls, cancelledAt, idleCancel>>

\* The rest of the callback: AnalyzeFileRisk, its error dropped, and the
\* accumulation of a profile with RiskScore > 0.
DirAnalyze ==
    /\ dpc = "file"
    /\ LET p == AnalyzeFileRisk(tree[dirIdx])
       IN  dirReport' =
               IF p.RiskScore > 0
               THEN [dirReport EXCEPT
                        !.TotalRiskScore = @ + p.RiskScore,
                        !.PotentialLiability = @ + p.EstimatedFine,
                        !.TopOffenders = Append(@, [path |-> dirIdx, profile |-> p]),
                        !.CriticalCount = IF p.RiskLabel = "CRITICAL"
                                          THEN @ + 1 ELSE @]
               ELSE dirReport
    /\ DirNext
    /\ emitted' = IF dirIdx < Len(tree) THEN emitted
                  ELSE Append(emitted, "scan:dir_complete")
    /\ UNCHANGED <<tree, cancelScan, scanCtxDone, dcalls, cancelledAt, idleCancel>>

\* App.CancelScan: cancel and clear the stored function, if any.  The
\* history variables record whether the walk had a poll left, and whether
\* the call found no directory scan running.
AppCancelScanClearsOnly ==
    /\ dcalls < MaxScanCalls
    /\ dcalls' = dcalls + 1
    /\ cancelScan' = FALSE
    /\ UNCHANGED scanCtxDone
    /\ cancelledAt' =
           IF dpc = "idle" \/ cancelledAt # "none" \/ ~cancelScan THEN cancelledAt
           ELSE IF dpc = "walk" \/ dirIdx < Len(tree) THEN "pollLeft"
           ELSE "lastFile"
    /\ idleCancel' = (idleCancel \/ dpc = "idle")
    /\ UNCHANGED <<dpc, tree, dirIdx, dirReport, emitted, returned>>

AppCancelScan ==
    /\ dcalls < MaxScanCalls
    /\ dcalls' = dcalls + 1
    /\ IF cancelScan
       THEN /\ scanCtxDone' = TRUE
            /\ cancelScan' = FALSE
       ELSE UNCHANGED <<scanCtxDone, cancelScan>>
    /\ cancelledAt' =
           IF dpc = "idle" \/ cancelledAt # "none" \/ ~cancelScan THEN cancelledAt
           ELSE IF dpc = "walk" \/ dirIdx < Len(tree) THEN "pollLeft"
           ELSE "lastFile"
    /\ idleCancel' = (idleCancel \/ dpc = "idle")
    /\ UNCHANGED <<dpc, tree, dirIdx, dirReport, emitted, returned>>

\* ------------------------------------------ Store and the calls that save
\* The calls the frontend and the scheduler make on the store.  UpdateStats
\* is called with (1, 1, liability) or (1, 0, 0); history is the
\* AuditHistory field of the configuration UpdateScheduleConfig is given.
StoreOps ==
    [name : {"UpdateStats"}, path : {""}, risks : {0, 1}, history : {<< >>}]
    \cup [name : {"AddSchedulePath"}, path : {"A", "B"}, risks : {0},
          history : {<< >>}]
    \cup [name : {"RemoveSchedulePath"}, path : {"A"}, risks : {0},
          history : {<< >>}]
    \cup [name : {"AddAuditEntry"}, path : {"PASSED", "FAILED"}, risks : {0},
          history : {<< >>}]
    \cup [name : {"UpdateScheduleConfig"}, path : {"B"}, risks : {0},
          history : {<< >>, <<"FAILED", "FAILED">>}]

\* Store.Load: the scan paths, the counters and the audit history, newest
\* entry first.
Load(d) ==
    [ScanPaths |-> d.ScanPaths,
     TotalFilesScanned |-> d.TotalFilesScanned,
     TotalRisksFound |-> d.TotalRisksFound,
     TotalLiability |-> d.TotalLiability,
     AuditHistory |-> [i \in 1..Len(d.audit) |-> d.audit[Len(d.audit) + 1 - i]]]

\* Store.Save: one transaction that writes the settings (scan paths among
\* them) and the counters of the configuration it is given.
SaveWithHistory(d, c) ==
    [d EXCEPT !.ScanPaths = c.ScanPaths,
              !.TotalFilesScanned = c.TotalFilesScanned,
              !.TotalRisksFound = c.TotalRisksFound,
              !.TotalLiability = c.TotalLiability,
              !.audit = c.AuditHistory]

Save(d, c) ==
    [d EXCEPT !.ScanPaths = c.ScanPaths,
              !.TotalFilesScanned = c.TotalFilesScanned,
              !.TotalRisksFound = c.TotalRisksFound,
              !.TotalLiability = c.TotalLiability]

\* What UpdateStats, AddSchedulePath and RemoveSchedulePath do to the
\* configuration they loaded, and the configuration UpdateScheduleConfig
\* receives from the frontend: c with the scan paths and the AuditHistory
\* the frontend put into it.
Modified(op, c) ==
    CASE op.name = "UpdateStats" ->
           [c EXCEPT !.TotalFilesScanned = @ + 1,
                     !.TotalRisksFound = @ + op.risks,
                     !.TotalLiability = @ + 100 * op.risks]
      [] op.name = "AddSchedulePath" ->
           [c EXCEPT !.ScanPaths = Append(@, op.path)]
      [] op.name = "RemoveSchedulePath" ->
           [c EXCEPT !.ScanPaths = SelectSeq(@, LAMBDA x : x # op.path)]
      [] OTHER ->
           [c EXCEPT !.ScanPaths = <<op.path>>, !.AuditHistory = op.history]

\* A call that has not arrived yet.
NewCall ==
    [pc |-> "new",
     op |-> [name |-> "", path |-> "", risks |-> 0, history |-> << >>],
     config |-> [ScanPaths |-> << >>, TotalFilesScanned |-> 0,
                 TotalRisksFound |-> 0, TotalLiability |-> 0,
                 AuditHistory |-> << >>]]

\* A new database: the stats row holds zeros, no audit entry.
StoreInit(paths) ==
    /\ db = [ScanPaths |-> paths, TotalFilesScanned |-> 0, TotalRisksFound |-> 0,
             TotalLiability |-> 0, audit |-> << >>]
    /\ storeCalls = [p \in 1..MaxStoreCalls |-> NewCall]

\* A call arrives and runs up to its first statement on the database:
\* AddAuditEntry its INSERT, UpdateScheduleConfig its Save, the others their
\* Load (AddSchedulePath returns nil at once on a duplicate).  Each statement
\* may fail, and the call then returns the error.
StoreBegin(p) ==
    /\ storeCalls[p].pc = "new"
    /\ \E op \in StoreOps, ok \in BOOLEAN :
         LET c == Load(db)
             ret(pos, conf) ==
                 storeCalls' = [storeCalls EXCEPT
                                   ![p] = [pc |-> pos, op |-> op, config |-> conf]]
         IN  CASE op.name = "AddAuditEntry" ->
                    /\ db' = IF ok THEN [db EXCEPT !.audit = Append(@, op.path)]
                             ELSE db
                    /\ ret(IF ok THEN "done" ELSE "failed", NewCall.config)
               [] op.name = "UpdateScheduleConfig" ->
                    /\ db' = IF ok THEN Save(db, Modified(op, c)) ELSE db
                    /\ ret(IF ok THEN "done" ELSE "failed", Modified(op, c))
               [] OTHER ->
                    /\ db' = db
                    /\ IF ~ok THEN ret("failed", NewCall.config)
                       ELSE IF /\ op.name = "AddSchedulePath"
                               /\ \E i \in DOMAIN c.ScanPaths : c.ScanPaths[i] = op.path
                       THEN ret("done", c)
                       ELSE ret("loaded", c)

\* UpdateStats, AddSchedulePath, RemoveSchedulePath after their Load: modify
\* the loaded configuration and Save it.
StoreFinish(p) ==
    /\ storeCalls[p].pc = "loaded"
    /\ \E ok \in BOOLEAN :
         /\ db' = IF ok THEN Save(db, Modified(storeCalls[p].op, storeCalls[p].config))
                  ELSE db
         /\ storeCalls' = [storeCalls EXCEPT ![p].pc = IF ok THEN "done" ELSE "failed"]

\* --------------------------------------------------------- specifications
Init ==
    /\ \E c \in Configs : SchedulerInit(c)
    /\ RiskIdle /\ ClassIdle /\ AppIdle /\ RedactIdle
    /\ DirInit(<<"dir">>) /\ StoreInit(<< >>)

Next ==
    \/ (Start /\ UNCHANGED notSched)
    \/ (OnTick /\ UNCHANGED notSched)
    \/ (OnTrigger /\ UNCHANGED notSched)
    \/ (OnStop /\ UNCHANGED notSched)
    \/ (ExecGuard /\ UNCHANGED notSched)
    \/ (CountRoot /\ UNCHANGED notSched)
    \/ (CountWalk /\ UNCHANGED notSched)
    \/ (CountCheck /\ UNCHANGED notSched)
    \/ (Analyze /\ UNCHANGED notSched)
    \/ (AnalyzeFile /\ UNCHANGED notSched)
    \/ (Finish /\ UNCHANGED notSched)
    \/ (CancelScan /\ UNCHANGED notSched)
    \/ (RunNow /\ UNCHANGED notSched)
    \/ (StopBegin /\ UNCHANGED notSched)
    \/ (StopClose /\ UNCHANGED notSched)
    \/ (TickerFire /\ UNCHANGED notSched)
    \/ (SaveConfig /\ UNCHANGED notSched)

Spec == Init /\ [][Next]_vars

InitRisk ==
    /\ SchedulerInit([Enabled |-> FALSE, IntervalHours |-> 0, ScanPaths |-> << >>])
    /\ RiskInit /\ ClassIdle /\ AppIdle /\ RedactIdle
    /\ DirInit(<<"dir">>) /\ StoreInit(<< >>)

NextRisk ==
    \/ (Extract /\ UNCHANGED notRisk)
    \/ (ScanLine /\ UNCHANGED notRisk)
    \/ (ScoreFile /\ UNCHANGED notRisk)

SpecRisk == InitRisk /\ [][NextRisk]_vars

SchedulerIdle ==
    SchedulerInit([Enabled |-> FALSE, IntervalHours |-> 0, ScanPaths |-> << >>])

InitClass ==
    /\ SchedulerIdle /\ RiskIdle /\ ClassInit /\ AppIdle /\ RedactIdle
    /\ DirInit(<<"dir">>) /\ StoreInit(<< >>)

NextClass ==
    \/ (ClassifyTokens /\ UNCHANGED notClass)
    \/ (ClassifyBigrams /\ UNCHANGED notClass)
    \/ (ClassifyPHI /\ UNCHANGED notClass)
    \/ (ClassifyDecide /\ UNCHANGED notClass)

SpecClass == InitClass /\ [][NextClass]_vars

InitApp ==
    /\ SchedulerIdle /\ RiskIdle /\ ClassIdle /\ AppInit /\ RedactIdle
    /\ DirInit(<<"dir">>) /\ StoreInit(<< >>)

NextApp ==
    \/ (startup /\ UNCHANGED notApp)
    \/ (UpdateScheduleConfig /\ UNCHANGED notApp)
    \/ (TriggerScheduledScan /\ UNCHANGED notApp)
    \/ (CancelScheduledScan /\ UNCHANGED notApp)
    \/ (\E i \in SchedIds : AppTickerFire(i) /\ UNCHANGED notApp)
    \/ (\E i \in SchedIds : AppOnTick(i) /\ UNCHANGED notApp)
    \/ (\E i \in SchedIds : AppOnTrigger(i) /\ UNCHANGED notApp)
    \/ (\E i \in SchedIds : AppOnStop(i) /\ UNCHANGED notApp)
    \/ (\E i \in SchedIds : AppExecGuard(i) /\ UNCHANGED notApp)
    \/ (\E i \in SchedIds : AppScanPoll(i) /\ UNCHANGED notApp)
    \/ (\E i \in SchedIds : AppFinish(i) /\ UNCHANGED notApp)

SpecApp == InitApp /\ [][NextApp]_vars

InitRedact ==
    /\ SchedulerIdle /\ RiskIdle /\ ClassIdle /\ AppIdle /\ RedactInit
    /\ DirInit(<<"dir">>) /\ StoreInit(<< >>)

NextRedact ==
    \/ (RedactStep /\ UNCHANGED notRedact)
    \/ (RedactReturn /\ UNCHANGED notRedact)

SpecRedact == InitRedact /\ [][NextRedact]_vars

InitDir ==
    /\ SchedulerIdle /\ RiskIdle /\ ClassIdle /\ AppIdle /\ RedactIdle
    /\ \E t \in Trees : DirInit(t)
    /\ StoreInit(<< >>)

NextDir ==
    \/ (ScanDirectory /\ UNCHANGED notDir)
    \/ (DirWalk /\ UNCHANGED notDir)
    \/ (DirAnalyze /\ UNCHANGED notDir)
    \/ (AppCancelScan /\ UNCHANGED notDir)

SpecDir == InitDir /\ [][NextDir]_vars

InitStore ==
    /\ SchedulerIdle /\ RiskIdle /\ ClassIdle /\ AppIdle /\ RedactIdle
    /\ DirInit(<<"dir">>)
    /\ \E paths \in {<< >>, <<"A">>} : StoreInit(paths)

NextStore ==
    \/ (\E p \in 1..MaxStoreCalls : StoreBegin(p) /\ UNCHANGED notStore)
    \/ (\E p \in 1..MaxStoreCalls : StoreFinish(p) /\ UNCHANGED notStore)

SpecStore == InitStore /\ [][NextStore]_vars

\* ------------------------------------------------------------ properties
Count(seq, e) == Cardinality({i \in DOMAIN seq : seq[i] = e})

\* Positions of executeScan after the handle is installed.
ScanBody == {"countRoot", "countWalk", "countCheck", "analyze", "file", "finish"}

\* The latest executeScan call neither wrote an audit entry nor emitted
\* scan-complete, and once it has returned it has emitted exactly one
\* 'Scan cancelled by user' notification (never more than one before).
AbortedAsCancelled ==
    /\ Len(audit) = auditAtEntry
    /\ Count(scanLog, "complete") = 0
    /\ Count(scanLog, "error:cancelled") <= 1
    /\ (activeScans = 0 => Count(scanLog, "error:cancelled") = 1)

\* C1: at most one executeScan body is executing at any time, whatever the
\* interleaving of ticks, RunNow, CancelScan and Stop.
C1_AtMostOneScanBody == activeScans <= 1

\* A scan body is executing while a tick and a manual trigger are both
\* waiting to be serviced.
C1_Witness ==
    /\ activeScans = 1 /\ pc \in ScanBody
    /\ tickPending /\ trigger = 1

\* C2: calling Stop twice does not panic; the stop signal is closed once.
C2_StopTwiceSafe == ~panicked

\* C3: a RunNow call made while a trigger is already pending adds nothing:
\* every call that found the slot empty is either still pending or was
\* consumed for exactly one executeScan call (or one failed Load), so two
\* calls before the first is consumed result in one scan execution.
C3_OneScanPerPendingTrigger ==
    /\ trigger <= 1
    /\ manualScans + manualLoadFail + trigger = firstCalls

\* Two RunNow calls were made before the loop consumed the first; the loop
\* has serviced the trigger with one scan, that scan has returned, and
\* nothing is left pending.
C3_Witness ==
    /\ firstCalls = 1 /\ rapidCalls = 1
    /\ manualScans = 1 /\ manualLoadFail = 0
    /\ trigger = 0 /\ pc = "select" /\ lastLoop = "trigScan"

C5_CancelAnywhereAborts ==
    cancelAt.at \in {"countRoot", "countWalk", "countCheck", "analyze", "file"}
    => AbortedAsCancelled

\* C5 amended: a cancellation that reaches the scan (handle installed) while
\* a poll of the cancellation signal is still ahead aborts it as
\* user-cancelled: no audit entry, no scan-complete, one cancellation
\* notification.
C5_CancelBeforeLastPollAborts ==
    (cancelAt.at # "none" /\ cancelAt.pollsLeft) => AbortedAsCancelled

\* A scan cancelled while a file was being analysed, with a poll still
\* ahead, has returned after reporting the cancellation.
C5_Witness ==
    /\ cancelAt.at = "file" /\ cancelAt.pollsLeft
    /\ activeScans = 0
    /\ Count(scanLog, "error:cancelled") = 1
    /\ Count(scanLog, "progress") >= 1

\* C6: a manual trigger serviced while the stored configuration is disabled
\* (and loads) calls executeScan with the ScanPaths stored at that moment.
C6_ManualIgnoresEnabled ==
    [][(OnTrigger /\ ~cfg.Enabled /\ lastLoop' # "trigLoadFail")
        => (/\ pc' = "enter"
            /\ activeScans' = activeScans + 1
            /\ scanPaths' = cfg.ScanPaths)]_vars

\* executeScan has just been called for a manual trigger with the stored,
\* non-empty paths while scanning is disabled.
C6_Witness ==
    /\ lastLoop = "trigScan" /\ pc = "enter"
    /\ ~cfg.Enabled
    /\ scanPaths = cfg.ScanPaths /\ scanPaths # << >>

\* C7: a tick serviced while the stored configuration is disabled starts no
\* scan, emits no notification, writes no audit entry, and leaves the loop
\* waiting at its select.
C7_DisabledTickSkipped ==
    [][(OnTick /\ ~cfg.Enabled)
        => (/\ pc' = "select"
            /\ UNCHANGED <<scanLog, scanData, audit, activeScans, certRequested>>)]_vars

\* The loop has just skipped a tick because scanning is disabled.
C7_Witness ==
    /\ lastLoop = "tickSkip" /\ pc = "select"
    /\ ~cfg.Enabled /\ ~tickPending

\* C8: once Stop has returned the timer is disarmed, a scan in flight is
\* cancelled, and no further executeScan is started.
C8_NoScanAfterStop ==
    [][stopClosed
        => (/\ ~tickerArmed
            /\ (pc \in ScanBody => ctxCancelled)
            /\ activeScans' <= activeScans)]_vars

\* C9: a returned RiskProfile has 0 <= RiskScore <= 100.
C9_ScoreInRange ==
    fpc = "done" => (0 <= profile.RiskScore /\ profile.RiskScore <= 100)

\* C10: with S the pre-clamp score of an analysed file, the label is Safe
\* iff S = 0, Low iff 0 < S < 50, High iff 50 <= S <= 100, CRITICAL iff
\* S > 100, and RiskScore = min(S, 100).
C10_BandingAndClamp ==
    (fpc = "done" /\ profile.RiskLabel # "")
    => /\ (profile.RiskLabel = "Safe") <=> (score = 0)
       /\ (profile.RiskLabel = "Low") <=> (0 < score /\ score < 50)
       /\ (profile.RiskLabel = "High") <=> (50 <= score /\ score <= 100)
       /\ (profile.RiskLabel = "CRITICAL") <=> (score > 100)
       /\ profile.RiskScore = (IF score < 100 THEN score ELSE 100)

\* Start left the ticker stopped (scanning disabled or interval zero) and
\* Stop has not been called since.
PausedMode ==
    /\ started /\ pc \notin {"new", "norun", "done"}
    /\ ~tickerArmed /\ ~stopClosed /\ stopPc = "idle"

\* Number of supported files under the roots of a path list.
RECURSIVE NumFiles(_)
NumFiles(paths) ==
    IF paths = << >> THEN 0
    ELSE Cardinality({i \in DOMAIN Entries(Head(paths)) :
                         Entries(Head(paths))[i] = "file"})
         + NumFiles(Tail(paths))

\* C12: RunNow returns without blocking in every scheduler state (idle, scan
\* executing, trigger already pending, after Stop), and the trigger channel
\* never holds more than one pending manual trigger.
C12_RunNowNeverBlocks ==
    /\ trigger \in {0, 1}
    /\ (started /\ ~panicked /\ calls < MaxCalls) => ENABLED RunNow

\* RunNow was called and returned while a trigger was already pending, a scan
\* was executing and Stop had already closed the stop channel.
C12_Witness ==
    /\ rapidCalls >= 1 /\ trigger = 1
    /\ pc \in ScanBody /\ activeScans = 1
    /\ stopClosed

\* C13: CancelScan called while no scan is executing emits nothing, writes no
\* audit entry and leaves the handle unset; the context of an executing scan
\* is cancelled only by a cancellation made during that scan; the handle is
\* set only while executeScan is in progress and is unset whenever
\* executeScan returns.
C13_IdleCancelIsNoOp ==
    [][/\ (CancelScan /\ activeScans = 0)
            => (/\ UNCHANGED <<scanLog, scanData, audit, ctxCancelled, pc>>
                /\ ~cancelCurrentScan')
       /\ cancelCurrentScan' => (pc' \in ScanBody /\ activeScans' = 1)
       /\ (pc' \in ScanBody /\ ctxCancelled') => cancelAt'.at # "none"
       /\ (activeScans' < activeScans) => ~cancelCurrentScan']_vars

\* CancelScan was called while no scan was executing, and a scan started
\* afterwards has run to completion.
C13_Witness ==
    /\ idleCancels /\ cancelAt.at = "none"
    /\ activeScans = 0 /\ Count(scanLog, "complete") = 1
    /\ ~cancelCurrentScan

C18_StartModes ==
    [][/\ (Start /\ pc' # "norun" /\ cfg.Enabled /\ cfg.IntervalHours # 0)
            => (/\ pc' = "enter" /\ lastLoop' = "initial"
                /\ activeScans' = 1 /\ scanPaths' = cfg.ScanPaths
                /\ tickerArmed')
       /\ (OnTick /\ cfg.Enabled /\ lastLoop' # "tickLoadFail")
            => (pc' = "enter" /\ activeScans' = activeScans + 1)
       /\ (Start /\ pc' # "norun" /\ ~(cfg.Enabled /\ cfg.IntervalHours # 0))
            => (pc' = "select" /\ activeScans' = 0 /\ PausedMode')
       /\ PausedMode
            => (/\ ~tickPending /\ ~tickPending'
                /\ lastLoop \notin {"initial", "tickScan", "tickSkip",
                                    "tickLoadFail"})
       /\ (PausedMode /\ OnTrigger /\ lastLoop' # "trigLoadFail")
            => (pc' = "enter" /\ PausedMode')
       /\ (PausedMode /\ CancelScan /\ cancelCurrentScan)
            => (ctxCancelled' /\ PausedMode')]_vars

\* Started with scanning disabled, the loop has serviced a manual trigger
\* and a CancelScan call has cancelled that scan.
C18_Witness ==
    /\ PausedMode /\ lastLoop = "trigScan"
    /\ cancelAt.at # "none" /\ activeScans = 0
    /\ Count(scanLog, "error:cancelled") = 1

C20_TickDuringScanDropped ==
    [][(OnTick /\ tickDuringScan) => activeScans' = activeScans]_vars

\* C20 amended: a tick that fires while executeScan is executing and finds
\* the ticker channel empty is held there, is still pending when that scan
\* returns, and is then serviced like any other tick: a scan is started when
\* the reloaded configuration is enabled.
C20_TickDuringScanHeld ==
    [][/\ (TickerFire /\ activeScans > 0) => (tickPending' /\ tickDuringScan')
       /\ (tickPending /\ tickDuringScan /\ activeScans' < activeScans)
            => (tickPending' /\ tickDuringScan')
       /\ (OnTick /\ tickDuringScan /\ cfg.Enabled
           /\ lastLoop' # "tickLoadFail")
            => (pc' = "enter" /\ lastLoop' = "tickScan")]_vars

\* The loop has started a scan for a tick that fired while the previous scan
\* was executing.
C20_Witness ==
    /\ lastLoop = "tickScan" /\ tickDuringScan /\ ~tickPending
    /\ pc \in ScanBody

\* C11: no two Scheduler instances of the application execute the body of
\* executeScan at the same time: the first scan of the Scheduler that
\* UpdateScheduleConfig starts does not execute while a scan of the
\* Scheduler it stopped is still executing.
C11_NoOverlapAcrossSchedulers ==
    Cardinality({i \in SchedIds : Scanning(i)}) <= 1

\* C15: equal non-zero Medical and Financial raw scores give Financial;
\* Medical is returned only for a strictly greater Medical score, Generic
\* only when both scores are zero.
C15_TieGoesToFinancial ==
    cpc = "done"
    => /\ (medScore = finScore /\ medScore > 0)
            => classified.type = "Financial"
       /\ classified.type = "Medical" => medScore > finScore
       /\ classified.type = "Generic" => (medScore = 0 /\ finScore = 0)
       /\ classified.type \in {"Medical", "Financial", "Generic"}

\* Classify has returned Financial for a text with equal non-zero scores.
C15_Witness ==
    /\ cpc = "done" /\ medScore = finScore /\ medScore > 0
    /\ classified.type = "Financial"

\* C14: redacting a redacted text changes nothing, call by call of
\* ReplaceAllString, so RedactContent(RedactContent(x)) = RedactContent(x);
\* and none of the twelve patterns, applied in the order SSN, card, phone,
\* email, MRN, date, IP, URL, account, license, VIN, ZIP, matches a
\* placeholder.
C14_RedactionIdempotent ==
    /\ pass \in {2, 3} => text = redacted
    /\ content \in Tokens => text = content

\* "MRN:123-45-6789" has been redacted twice, to "MRN:[REDACTED-SSN]".
C14_Witness ==
    /\ pass = 3
    /\ content = Frag.mrnLabel \o Frag.ssn
    /\ redacted = Frag.mrnLabel \o Redactions[1].token
    /\ text = redacted

\* ------------------------------------------------- run loop, later claims
\* C29: every manual trigger the run loop has consumed is followed by a
\* terminal notification (scan-complete or a scan error), whatever the stored
\* configuration is: when the loop is back at its select after servicing a
\* trigger, the trigger was not dropped on a failed Load and the scan made
\* for it has emitted one of those notifications (each of them clears the
\* frontend's scanning flag).
C29_ManualTriggerNotified ==
    LoopAtSelect =>
        /\ lastLoop # "trigLoadFail"
        /\ lastLoop = "trigScan" =>
               \E i \in DOMAIN scanLog :
                   scanLog[i] \in {"complete", "error:cancelled", "error:path"}

\* C22: no failure terminates the run loop.  The loop has returned only when
\* the stop channel is closed; after a configuration load failure, a
\* cancelled scan, a per-root error or a certificate failure the loop is
\* still in its for/select, and once it waits there with a RunNow request
\* buffered it can service the request with a scan.
C22_OnlyStopEndsLoop ==
    LET metFailure ==
            \/ lastLoop \in {"tickLoadFail", "trigLoadFail"}
            \/ \E i \in DOMAIN scanLog :
                   scanLog[i] \in {"error:cancelled", "error:path"}
            \/ certError
    IN  /\ pc = "done" => stopClosed /\ lastLoop = "stop"
        /\ (metFailure /\ ~stopClosed /\ ~panicked) =>
               /\ pc \notin {"new", "norun", "done"}
               /\ (LoopAtSelect /\ trigger > 0) =>
                      ENABLED (OnTrigger /\ pc' = "enter" /\ lastLoop' = "trigScan")

\* A manual trigger was dropped on a failed Load, and the RunNow made after
\* it is being serviced with a scan.
C22_Witness ==
    /\ manualLoadFail > 0
    /\ lastLoop = "trigScan" /\ pc = "enter"
    /\ ~stopClosed /\ ~panicked

\* In the two formulas below tickServiced is the step in which the run loop
\* services a tick, triggerServiced the one in which it services a manual
\* trigger.
\* C23 as stated: a scan started by a tick or a manual trigger uses the
\* configuration stored when the event is serviced, and a change of the scan
\* paths, the enabled flag or the interval takes effect at that event: the
\* scan walks the stored paths, a tick scans only when the stored flag is
\* set, and from that event on the ticker runs exactly when the stored
\* configuration asks for periodic scans.
C23_ConfigAppliedAtEvent ==
    [][LET tickServiced == /\ LoopAtSelect /\ tickPending /\ ~tickPending'
                           /\ calls' = calls /\ pc' # "done"
           triggerServiced == trigger' = trigger - 1
       IN  (tickServiced \/ triggerServiced) =>
               /\ pc' = "enter" => scanPaths' = cfg.ScanPaths
               /\ (tickServiced /\ pc' = "enter") => cfg.Enabled
               /\ (stopPc = "idle" /\ ~stopClosed) =>
                      tickerArmed' = TickerRunning(cfg)]_vars

\* C23, amended: the scan paths and the enabled flag are read from the store
\* when the event is serviced, but the ticker is left as Start set it: no
\* event and no save of the configuration arms, stops or resets it.
C23_PathsAndEnabledReadAtEvent ==
    [][LET tickServiced == /\ LoopAtSelect /\ tickPending /\ ~tickPending'
                           /\ calls' = calls /\ pc' # "done"
           triggerServiced == trigger' = trigger - 1
       IN  /\ (tickServiced \/ triggerServiced) =>
                  /\ pc' = "enter" => scanPaths' = cfg.ScanPaths
                  /\ (tickServiced /\ pc' = "enter") => cfg.Enabled
                  /\ tickerArmed' = tickerArmed
           /\ cfg' # cfg => tickerArmed' = tickerArmed]_vars

\* Start found no scan paths and an interval; a tick fired, a configuration
\* with the path "A" and interval 0 was saved, and the tick is serviced with
\* a scan of "A" while the ticker still runs.
C23_Witness ==
    /\ calls = 2 /\ Len(audit) = 0
    /\ lastLoop = "tickScan" /\ pc = "enter"
    /\ scanPaths = <<"A">> /\ cfg.ScanPaths = <<"A">>
    /\ cfg.IntervalHours = 0 /\ tickerArmed

\* ------------------------------------------- the run loop under fairness
\* The steps of the run goroutine: the select of the loop and the body of
\* executeScan.
RunStep ==
    \/ OnTick \/ OnTrigger
    \/ ExecGuard \/ CountRoot \/ CountWalk \/ CountCheck
    \/ Analyze \/ AnalyzeFile \/ Finish

\* The scheduler while Stop is not called and the stored configuration is
\* left as it is: Start, the run goroutine, the ticker, and RunNow and
\* CancelScan calls.
NextLive ==
    \/ (Start /\ UNCHANGED notSched)
    \/ (OnTick /\ UNCHANGED notSched)
    \/ (OnTrigger /\ UNCHANGED notSched)
    \/ (ExecGuard /\ UNCHANGED notSched)
    \/ (CountRoot /\ UNCHANGED notSched)
    \/ (CountWalk /\ UNCHANGED notSched)
    \/ (CountCheck /\ UNCHANGED notSched)
    \/ (Analyze /\ UNCHANGED notSched)
    \/ (AnalyzeFile /\ UNCHANGED notSched)
    \/ (Finish /\ UNCHANGED notSched)
    \/ (CancelScan /\ UNCHANGED notSched)
    \/ (RunNow /\ UNCHANGED notSched)
    \/ (TickerFire /\ UNCHANGED notSched)

\* The Go runtime keeps scheduling a runnable goroutine, and every step of
\* executeScan returns (the tree is finite): the run goroutine takes a step
\* whenever it has one.
SpecLive == Init /\ [][NextLive]_vars /\ WF_vars(RunStep /\ UNCHANGED notSched)

\* C21: a RunNow accepted while a scan is executing is retained (the trigger
\* slot holds it), and once the current scan has returned the run loop
\* services it: it starts a scan for it, or finds that the configuration
\* does not load.
C21_TriggerDuringScanServed ==
    (trigger = 1 /\ activeScans > 0)
        ~> \/ trigger = 0 /\ lastLoop = "trigScan" /\ pc = "enter"
           \/ trigger = 0 /\ lastLoop = "trigLoadFail"

\* The scan Start made is at its last step and holds the one RunNow made
\* since Start in the trigger slot.
C21_Witness ==
    /\ lastLoop = "initial" /\ pc = "finish"
    /\ calls = 1 /\ firstCalls = 1 /\ trigger = 1

RECURSIVE SumTo(_, _)
\* vals[1] + ... + vals[n]
SumTo(vals, n) == IF n = 0 THEN 0 ELSE vals[n] + SumTo(vals, n - 1)

\* C25: after AnalyzeDirectory over any set of files, TopOffenders holds
\* exactly the analysed files whose RiskScore is above 0, TotalRiskScore is
\* the sum of their clamped RiskScore (so at most 100 x len(TopOffenders)),
\* PotentialLiability the sum of their EstimatedFine, CriticalCount the
\* number of them labelled CRITICAL, and TotalFiles >= len(TopOffenders).
C25_ReportAggregates ==
    LET off == dirReport.TopOffenders
        n == Len(off)
        analysed == {i \in 1..(dirIdx - 1) : tree[i] \in DOMAIN FileContent}
    IN  /\ {off[k].path : k \in 1..n} =
               {i \in analysed : AnalyzeFileRisk(tree[i]).RiskScore > 0}
        /\ \A k \in 1..n :
               /\ off[k].profile = AnalyzeFileRisk(tree[off[k].path])
               /\ \A j \in 1..n : off[j].path = off[k].path => j = k
               /\ off[k].profile.RiskScore \in 1..100
        /\ dirReport.TotalRiskScore =
               SumTo([k \in 1..n |-> off[k].profile.RiskScore], n)
        /\ dirReport.TotalRiskScore <= 100 * n
        /\ dirReport.PotentialLiability =
               SumTo([k \in 1..n |-> off[k].profile.EstimatedFine], n)
        /\ dirReport.CriticalCount =
               Cardinality({k \in 1..n : off[k].profile.RiskLabel = "CRITICAL"})
        /\ dirReport.TotalFiles >= n

\* C26: a supported-extension file whose text extraction fails is still
\* reported to the progress callback and counted in TotalFiles, contributes
\* risk score 0 and no offender entry, and the walk continues with the
\* remaining files: every supported file visited has been reported and
\* counted, no offender is an unreadable file, the totals are those of the
\* readable files alone, and a walk that was not cancelled ends with every
\* supported file of the tree counted.
C26_ExtractionFailureSkipped ==
    LET analysed == {i \in 1..(dirIdx - 1) : tree[i] \in DOMAIN FileContent}
        visited == analysed \cup (IF dpc = "file" THEN {dirIdx} ELSE {})
        failed == {i \in analysed : ~FileContent[tree[i]].ok}
        off == dirReport.TopOffenders
    IN  /\ dirReport.TotalFiles = Cardinality(visited)
        /\ Count(emitted, "scan:progress") = Cardinality(visited)
        /\ \A k \in DOMAIN off : off[k].path \notin failed
        /\ dirReport.TotalRiskScore =
               SumTo([k \in DOMAIN off |-> off[k].profile.RiskScore], Len(off))
        /\ returned = "report" =>
               /\ analysed = {i \in DOMAIN tree : tree[i] \in DOMAIN FileContent}
               /\ emitted[Len(emitted)] = "scan:dir_complete"

\* The walk met an unreadable file and then a file with an SSN and a
\* keyword, and returned its report: two files counted, one offender.
C26_Witness ==
    /\ tree = <<"dir", "unreadable", "ssnKeyword">>
    /\ returned = "report"
    /\ dirReport.TotalFiles = 2
    /\ Len(dirReport.TopOffenders) = 1
    /\ dirReport.TopOffenders[1].path = 3
    /\ dirReport.TotalRiskScore = 60

\* C30 as stated: if App.CancelScan is called while ScanDirectory is walking
\* its tree, that call emits scan:cancelled, returns an empty report and
\* emits no scan:dir_complete; a CancelScan with no directory scan running is
\* a no-op and does not cancel a scan started afterwards.
C30_CancelDuringWalkCancels ==
    /\ (cancelledAt # "none" /\ dpc = "idle") =>
           /\ returned = "empty"
           /\ Count(emitted, "scan:cancelled") = 1
           /\ Count(emitted, "scan:dir_complete") = 0
    /\ (cancelledAt = "none" /\ dpc # "idle") => ~scanCtxDone
    /\ (cancelledAt = "none" /\ returned # "none") =>
           /\ returned = "report"
           /\ Count(emitted, "scan:cancelled") = 0

\* C30, amended: the cancellation is polled at the top of each walk callback
\* only.  A CancelScan called while the walk has a callback left to start
\* makes that ScanDirectory call emit scan:cancelled, return an empty report
\* and emit no scan:dir_complete; one called while the last entry is being
\* analysed comes too late, and the call completes with scan:dir_complete.
\* A CancelScan with no directory scan running does not cancel a scan
\* started afterwards.
C30_CancelBeforeLastPollCancels ==
    /\ (cancelledAt = "pollLeft" /\ dpc = "idle") =>
           /\ returned = "empty"
           /\ Count(emitted, "scan:cancelled") = 1
           /\ Count(emitted, "scan:dir_complete") = 0
    /\ (cancelledAt = "lastFile" /\ dpc = "idle") =>
           /\ returned = "report"
           /\ Count(emitted, "scan:dir_complete") = 1
           /\ Count(emitted, "scan:cancelled") = 0
    /\ (cancelledAt = "none" /\ dpc # "idle") => ~scanCtxDone
    /\ (cancelledAt = "none" /\ returned # "none") =>
           /\ returned = "report"
           /\ Count(emitted, "scan:cancelled") = 0

\* A CancelScan found no scan running, the scan started after it was
\* cancelled by a second CancelScan during the analysis of its first file,
\* and it has returned its empty report after one progress event.
C30_Witness ==
    /\ idleCancel /\ cancelledAt = "pollLeft"
    /\ dcalls = 3 /\ dpc = "idle"
    /\ returned = "empty"
    /\ emitted = <<"scan:dir_start", "scan:progress", "scan:cancelled">>

\* ------------------------------------------------- store, later claims
\* C27: the stored audit history is append-only.  A call that returns from
\* AddAuditEntry without error has added its entry at the end and left the
\* others as they were; every other step of a call (Save in
\* UpdateScheduleConfig, AddSchedulePath, RemoveSchedulePath and UpdateStats,
\* whatever AuditHistory the saved configuration carries, and any statement
\* that fails) leaves the stored history unchanged.
C27_AuditHistoryAppendOnly ==
    [][\A p \in 1..MaxStoreCalls :
          storeCalls'[p] # storeCalls[p] =>
              IF storeCalls'[p].op.name = "AddAuditEntry" /\ storeCalls'[p].pc = "done"
              THEN db'.audit = Append(db.audit, storeCalls'[p].op.path)
              ELSE db'.audit = db.audit]_vars

\* UpdateStats loaded a configuration that carries the one audit entry and
\* saved it: the counters are written and the entry is still the only one.
C27_Witness ==
    /\ db.audit = <<"PASSED">>
    /\ db.TotalFilesScanned = 1
    /\ \E p \in 1..MaxStoreCalls :
         /\ storeCalls[p].op.name = "UpdateStats"
         /\ storeCalls[p].pc = "done"
         /\ storeCalls[p].config.AuditHistory = <<"PASSED">>

\* C28: after any interleaving of concurrent UpdateStats, AddSchedulePath
\* and RemoveSchedulePath calls no update is lost: once no call is between
\* its Load and its Save, the stored counters are their initial zeros plus
\* the increments of the UpdateStats calls that returned without error, a
\* path added and not removed is stored, and a path removed and not added
\* is not.
C28_NoLostUpdate ==
    LET done(name) == {p \in 1..MaxStoreCalls :
                          /\ storeCalls[p].pc = "done"
                          /\ storeCalls[p].op.name = name}
        stored == {db.ScanPaths[i] : i \in DOMAIN db.ScanPaths}
        added == {storeCalls[p].op.path : p \in done("AddSchedulePath")}
        removed == {storeCalls[p].op.path : p \in done("RemoveSchedulePath")}
        risky == {p \in done("UpdateStats") : storeCalls[p].op.risks = 1}
    IN  (/\ \A p \in 1..MaxStoreCalls : storeCalls[p].pc # "loaded"
         /\ done("UpdateScheduleConfig") = {}) =>
            /\ db.TotalFilesScanned = Cardinality(done("UpdateStats"))
            /\ db.TotalRisksFound = Cardinality(risky)
            /\ db.TotalLiability = 100 * Cardinality(risky)
            /\ (added \ removed) \subseteq stored
            /\ (removed \ added) \cap stored = {}

====
